---- MODULE Spec2Model ----
(***************************************************************************)
(* Focus Guardian: the schedule post-processing pipeline of                *)
(* core/blocks.py, core/meals.py and core/scheduler.py.                    *)
(*                                                                         *)
(* A clock string "HH:MM" is the pair <<HH, MM>>; a string that does not   *)
(* split into two integers is the 1-tuple Malformed, and an absent key is  *)
(* the empty tuple Missing.  An entry is [start, end, block] in minutes;   *)
(* its block carries type, title and focus_required (an absent             *)
(* focus_required reads as falsy everywhere, so it is FALSE here).  The    *)
(* clock strings inside an entry's block are never read during processing  *)
(* and are overwritten when the output is rendered, so they appear only in *)
(* raw blocks and in output blocks.                                        *)
(***************************************************************************)
EXTENDS Integers, Sequences, FiniteSets, TLC

VARIABLES
    pc,               \* position inside post_process_schedule
    run,              \* 1 = first call, 2 = the call fed with the first output
    schedule,         \* schedule["blocks"]: the raw input blocks
    preferences,      \* commitments["preferences"]
    tasks,            \* tasks["tasks"]
    meals_count,
    todays_events,
    wake_minutes, sleep_minutes, crosses_midnight,
    day_start, day_end,
    entries,          \* the working entry list
    new_blocks,       \* the returned block list
    first_blocks,     \* the block list returned by the first call
    first_entries,    \* the minute intervals behind first_blocks
    seq_start, seq_end,  \* build_focus_sequence run on its own: its start and end
    seq_cursor,       \* its cursor
    seq_segments,     \* its segments
    meal_idx,         \* ensure_meal_coverage, step by step: index of the title being placed
    meal_gap,         \* the min_gap of the current insert_meal_entry call
    meal_pass,        \* its position: 0 = line 109, 1..3 = the pass about to run
    raw_start, raw_end,    \* normalize_window run on its own: its two clock arguments
    norm_start, norm_end   \* the pair it returns

vars == <<pc, run, schedule, preferences, tasks, meals_count, todays_events,
          wake_minutes, sleep_minutes, crosses_midnight, day_start, day_end,
          entries, new_blocks, first_blocks, first_entries,
          seq_start, seq_end, seq_cursor, seq_segments,
          meal_idx, meal_gap, meal_pass, raw_start, raw_end, norm_start, norm_end>>

----------------------------------------------------------------------------
(* Bounds of the model *)

MaxBlocks == 2
MaxEvents == 1

(* Program constants *)

MINUTES_PER_DAY == 1440

----------------------------------------------------------------------------
(* Generic helpers *)

Max(a, b) == IF a >= b THEN a ELSE b
Min(a, b) == IF a <= b THEN a ELSE b
Abs(a) == IF a >= 0 THEN a ELSE -a

\* Python's % and // on integers (floor semantics; the divisor is positive)
PyMod(a, b) == a % b
PyDiv(a, b) == a \div b

Range(s) == {s[i] : i \in 1..Len(s)}

RECURSIVE SeqsUpTo(_, _)
SeqsUpTo(S, n) ==
    IF n = 0 THEN {<<>>}
    ELSE LET shorter == SeqsUpTo(S, n - 1)
         IN  shorter \cup {Append(s, x) : s \in {t \in shorter : Len(t) = n - 1}, x \in S}

\* sorted(..., key=...): stable, ascending, over records [key, val]
RECURSIVE InsertByKey(_, _)
InsertByKey(sorted, e) ==
    IF sorted = <<>> THEN <<e>>
    ELSE IF sorted[Len(sorted)].key <= e.key THEN Append(sorted, e)
    ELSE Append(InsertByKey(SubSeq(sorted, 1, Len(sorted) - 1), e), sorted[Len(sorted)])

RECURSIVE SortByKey(_)
SortByKey(s) ==
    IF s = <<>> THEN <<>>
    ELSE InsertByKey(SortByKey(SubSeq(s, 1, Len(s) - 1)), s[Len(s)])

\* list.sort(key=lambda e: e["start"])
SortByStart(s) ==
    LET keyed == SortByKey([i \in 1..Len(s) |-> [key |-> s[i].start, val |-> s[i]]])
    IN  [i \in 1..Len(s) |-> keyed[i].val]

----------------------------------------------------------------------------
(* Strings.  TLA+ strings are atomic, so lower-casing and the substring    *)
(* tests of the source are tables over the strings the model uses.         *)

Lower(s) ==
    CASE s = "Essay" -> "essay"
      [] s = "Meal" -> "meal"
      [] s = "Gym" -> "gym"
      [] s = "Physics Lecture" -> "physics lecture"
      [] s = "Study" -> "study"
      [] s = "Nap" -> "nap"
      [] s = "Focus Block" -> "focus block"
      [] s = "Free Time" -> "free time"
      [] s = "Morning Routine" -> "morning routine"
      [] s = "Evening Routine" -> "evening routine"
      [] s = "Weekly Event" -> "weekly event"
      [] s = "Main Meal" -> "main meal"
      [] s = "Breakfast" -> "breakfast"
      [] s = "Lunch" -> "lunch"
      [] s = "Dinner" -> "dinner"
      [] s = "Snack/Brunch" -> "snack/brunch"
      [] s = "Mid-morning Snack" -> "mid-morning snack"
      [] s = "Afternoon Snack" -> "afternoon snack"
      [] s = "Evening Snack" -> "evening snack"
      [] s = "Freetime" -> "freetime"
      [] OTHER -> s

\* keyword in text, for the lower-cased strings of the model
Contains(text, keyword) ==
    <<text, keyword>> \in
        { <<"freetime", "free">>, <<"free_time", "free">>, <<"free time", "free">>,
          <<"break", "break">>, <<"breakfast", "break">>,
          <<"buffer", "buffer">>,
          <<"focus_placeholder", "placeholder">>,
          <<"task", "task">>, <<"tasks", "task">>, <<"todo", "todo">> }

StartsWith(text, prefix) == <<text, prefix>> \in { <<"task", "task">>, <<"tasks", "task">> }

----------------------------------------------------------------------------
(* core/blocks.py *)

Missing == << >>
Malformed == << -1 >>

parse_time(value) ==
    IF Len(value) = 2 THEN value[1] * 60 + value[2] ELSE 0

minutes_to_time(minutes) ==
    LET m == PyMod(minutes, MINUTES_PER_DAY)
    IN  << PyDiv(m, 60), PyMod(m, 60) >>

normalize_minutes(value, wake, sleep, crosses) ==
    IF crosses /\ value < wake /\ value <= sleep
    THEN value + MINUTES_PER_DAY
    ELSE value

\* normalize_window without lines 58-59
normalize_window_no_wrap(start_minutes, end_minutes, wake, sleep, crosses) ==
    <<normalize_minutes(start_minutes, wake, sleep, crosses),
      normalize_minutes(end_minutes, wake, sleep, crosses)>>

normalize_window(start_minutes, end_minutes, wake, sleep, crosses) ==
    LET start == normalize_minutes(start_minutes, wake, sleep, crosses)
        end == normalize_minutes(end_minutes, wake, sleep, crosses)
    IN  IF end <= start THEN <<start, end + MINUTES_PER_DAY>> ELSE <<start, end>>

----------------------------------------------------------------------------
(* core/scheduler.py: entries and the gap filler *)

\* is_focus_block that knows the canonical label only
is_focus_block_canonical(block) == Lower(block.type) = "focus_block"

is_focus_block(block) ==
    Lower(block.type) \in {"focus_block", "focus_placeholder", "focus"}

is_fixed_block(block) ==
    Lower(block.type) \in {"weekly_event", "meal", "morning_routine", "evening_routine"}

Entry(start, end, block) == [start |-> start, end |-> end, block |-> block]

create_focus_entry(start, end) ==
    Entry(start, end, [type |-> "focus_block", title |-> "Focus Block", focus_required |-> TRUE])

create_free_time_entry(start, end) ==
    Entry(start, end, [type |-> "freetime", title |-> "Free Time", focus_required |-> FALSE])

\* the while loop of build_focus_sequence; on integers
\* cursor + focus_len <= end - 1e-6 is cursor + focus_len < end
RECURSIVE FocusLoop(_, _, _, _, _)
FocusLoop(cursor, end, focus_len, break_len, segments) ==
    IF cursor + focus_len < end
    THEN LET block_end == cursor + focus_len
             with_focus == Append(segments, create_focus_entry(cursor, block_end))
             remaining == end - block_end
         IN  IF break_len > 0 /\ remaining >= break_len + focus_len
             THEN FocusLoop(block_end + break_len, end, focus_len, break_len,
                            Append(with_focus, create_free_time_entry(block_end, block_end + break_len)))
             ELSE FocusLoop(block_end, end, focus_len, break_len, with_focus)
    ELSE IF cursor < end
         THEN Append(segments, create_free_time_entry(cursor, end))
         ELSE segments

\* FocusLength without the floor of 5
FocusLengthUnclamped(prefs) == prefs.focus_block_length

\* line 41
FocusLength(prefs) == Max(5, prefs.focus_block_length)

\* line 42
BreakLength(prefs) == Max(0, prefs.break_length)

build_focus_sequence(start, end, prefs) ==
    FocusLoop(start, end, FocusLength(prefs), BreakLength(prefs), <<>>)

RECURSIVE FillLoop(_, _, _, _, _, _, _)
FillLoop(sorted, i, cursor, acc, ds, de, prefs) ==
    IF i > Len(sorted)
    THEN IF cursor < de THEN acc \o build_focus_sequence(cursor, de, prefs) ELSE acc
    ELSE LET entry == sorted[i]
             start0 == Max(entry.start, ds)
             end == Min(entry.end, de)
         IN  IF end <= start0
             THEN FillLoop(sorted, i + 1, cursor, acc, ds, de, prefs)
             ELSE LET gap == start0 > cursor
                      acc1 == IF gap THEN acc \o build_focus_sequence(cursor, start0, prefs) ELSE acc
                      cursor1 == IF gap THEN start0 ELSE cursor
                      start == IF gap THEN start0 ELSE Max(start0, cursor)
                      acc2 == IF is_focus_block(entry.block)
                              THEN acc1 \o build_focus_sequence(start, end, prefs)
                              ELSE Append(acc1, Entry(start, end, entry.block))
                  IN  FillLoop(sorted, i + 1, Max(cursor1, end), acc2, ds, de, prefs)

fill_gaps_with_focus(es, ds, de, prefs) ==
    FillLoop(SortByStart(es), 1, ds, <<>>, ds, de, prefs)

----------------------------------------------------------------------------
(* core/scheduler.py: fixed blocks, routines, weekly events *)

\* the carve loop of insert_fixed_block
RECURSIVE CarveFixed(_, _, _, _, _)
CarveFixed(es, i, start, end, adjusted) ==
    IF i > Len(es) THEN adjusted
    ELSE LET entry == es[i]
         IN  IF entry.end <= start \/ entry.start >= end
             THEN CarveFixed(es, i + 1, start, end, Append(adjusted, entry))
             ELSE LET before == IF entry.start < start /\ start - entry.start > 0
                                THEN <<Entry(entry.start, start, entry.block)>> ELSE <<>>
                      after == IF entry.end > end /\ entry.end - end > 0
                               THEN <<Entry(end, entry.end, entry.block)>> ELSE <<>>
                  IN  CarveFixed(es, i + 1, start, end, adjusted \o before \o after)

insert_fixed_block(es, start, end, block) ==
    IF end - start <= 0 THEN es
    ELSE SortByStart(Append(CarveFixed(es, 1, start, end, <<>>), Entry(start, end, block)))

\* int(round(num / den)) for num >= 0, den > 0: Python 3 rounds halves to even
\* (the float product len * scale is the exact quotient for every length and
\* window of the scenarios below; it can miss an exact half by one ulp elsewhere,
\* e.g. 11 * (15 / 22.0))
RoundHalfEven(num, den) ==
    LET q == num \div den
        r == num % den
    IN  IF 2 * r > den \/ (2 * r = den /\ q % 2 = 1) THEN q + 1 ELSE q

\* the routine filter that lets every entry through
NotRoutineKeepAll(entry) == TRUE

NotRoutine(entry) == Lower(entry.block.type) \notin {"morning_routine", "evening_routine"}

ensure_routines(es, ds, de, prefs) ==
    LET total_window == Max(de - ds, 0)
        morning_pref == IF prefs.morning_routine_length = 0 THEN 30 ELSE prefs.morning_routine_length
        evening_pref == IF prefs.evening_routine_length = 0 THEN 30 ELSE prefs.evening_routine_length
        m0 == Max(1, morning_pref)
        e0 == Max(1, evening_pref)
        scaled == m0 + e0 > total_window
        m1 == IF scaled THEN Max(1, RoundHalfEven(m0 * total_window, m0 + e0)) ELSE m0
        e1 == IF scaled THEN Max(1, RoundHalfEven(e0 * total_window, m0 + e0)) ELSE e0
        over == m1 + e1 > total_window
        overflow == m1 + e1 - total_window
        reduce_evening == Min(overflow, Max(0, e1 - 1))
        e2 == IF over THEN e1 - reduce_evening ELSE e1
        overflow2 == overflow - reduce_evening
        m2 == IF over /\ overflow2 > 0 /\ m1 > 1 THEN m1 - Min(overflow2, m1 - 1) ELSE m1
        morning_end0 == Min(ds + m2, de)
        morning_end == IF de - morning_end0 < 1 /\ de - ds >= 1
                       THEN Max(ds, de - 1) ELSE morning_end0
        remaining_after_morning == Max(de - morning_end, 0)
        e3 == IF remaining_after_morning >= 1
              THEN Max(1, Min(e2, remaining_after_morning)) ELSE 0
        evening_start == Max(de - e3, morning_end)
        kept == SelectSeq(es, NotRoutine)
        morning_block == [type |-> "morning_routine", title |-> "Morning Routine", focus_required |-> FALSE]
        evening_block == [type |-> "evening_routine", title |-> "Evening Routine", focus_required |-> FALSE]
        with_morning == IF morning_end > ds
                        THEN insert_fixed_block(kept, ds, morning_end, morning_block) ELSE kept
    IN  IF total_window <= 0 THEN <<>>
        ELSE IF evening_start < de
             THEN insert_fixed_block(with_morning, evening_start, de, evening_block)
             ELSE with_morning

\* the carve loop that keeps every entry as it is
CarvePartsKeep(entry, event_start, event_end) == <<entry>>

\* the carve loop without the after-part of an overlapping entry
CarvePartsNoAfter(entry, event_start, event_end) ==
    IF entry.end <= event_start \/ entry.start >= event_end
    THEN <<entry>>
    ELSE IF entry.start < event_start
         THEN <<Entry(entry.start, event_start, entry.block)>> ELSE <<>>

\* what one entry contributes to adjusted_entries: itself when it does not
\* meet the event, else its before-part and/or its after-part
CarveParts(entry, event_start, event_end) ==
    IF entry.end <= event_start \/ entry.start >= event_end
    THEN <<entry>>
    ELSE LET before == IF entry.start < event_start
                       THEN <<Entry(entry.start, event_start, entry.block)>> ELSE <<>>
             after == IF entry.end > event_end
                      THEN <<Entry(event_end, entry.end, entry.block)>> ELSE <<>>
         IN  before \o after

\* the carve loop of enforce_weekly_events
RECURSIVE CarveEvent(_, _, _, _, _)
CarveEvent(es, i, event_start, event_end, adjusted) ==
    IF i > Len(es) THEN adjusted
    ELSE CarveEvent(es, i + 1, event_start, event_end,
                    adjusted \o CarveParts(es[i], event_start, event_end))

\* the clamped window of one event: max(day_start, start'), min(day_end, end')
EventWindow(event, ds, de, wake, sleep, crosses) ==
    LET w == normalize_window(parse_time(event.start), parse_time(event.end), wake, sleep, crosses)
    IN  << Max(ds, w[1]), Min(de, w[2]) >>

RECURSIVE EventLoop(_, _, _, _, _, _, _, _)
EventLoop(es, events, k, ds, de, wake, sleep, crosses) ==
    IF k > Len(events) THEN es
    ELSE LET event == events[k]
             w == EventWindow(event, ds, de, wake, sleep, crosses)
             title == IF event.title = "" THEN "Weekly Event" ELSE event.title
             event_block == [type |-> "weekly_event", title |-> title, focus_required |-> FALSE]
         IN  IF event.start = Missing \/ event.end = Missing \/ w[2] - w[1] < 5
             THEN EventLoop(es, events, k + 1, ds, de, wake, sleep, crosses)
             ELSE EventLoop(
                      SortByStart(Append(CarveEvent(es, 1, w[1], w[2], <<>>),
                                         Entry(w[1], w[2], event_block))),
                      events, k + 1, ds, de, wake, sleep, crosses)

enforce_weekly_events(es, events, ds, de, wake, sleep, crosses) ==
    IF events = <<>> THEN es
    ELSE EventLoop(es, events, 1, ds, de, wake, sleep, crosses)

----------------------------------------------------------------------------
(* core/scheduler.py: task durations *)

\* task_map.get(title): the duration of the last task of that name with a
\* positive duration, 0 when there is none
RECURSIVE TaskDuration(_, _)
TaskDuration(ts, title) ==
    IF ts = <<>> THEN 0
    ELSE LET task == ts[Len(ts)]
         IN  IF Lower(task.name) = title /\ task.name # "" /\ task.duration > 0
             THEN task.duration
             ELSE TaskDuration(SubSeq(ts, 1, Len(ts) - 1), title)

HasTaskMap(ts) == \E i \in 1..Len(ts) : ts[i].name # "" /\ ts[i].duration > 0

\* the inner loop: resolve the overlap a resized entry creates
RECURSIVE PushLoop(_, _, _, _)
PushLoop(es, idx, next_idx, current_end) ==
    IF next_idx > Len(es) THEN es
    ELSE LET next_entry == es[next_idx]
             overlap == current_end - next_entry.start
         IN  IF next_entry.start >= current_end \/ overlap <= 0 THEN es
             ELSE IF is_fixed_block(next_entry.block)
                  THEN [es EXCEPT ![idx].end = next_entry.start]
                  ELSE PushLoop(
                           [es EXCEPT ![next_idx].start = @ + overlap,
                                      ![next_idx].end = @ + overlap],
                           idx, next_idx + 1,
                           Max(current_end, next_entry.end + overlap))

RECURSIVE TaskLoop(_, _, _)
TaskLoop(es, idx, ts) ==
    IF idx > Len(es) THEN es
    ELSE LET entry == es[idx]
             block_type == Lower(entry.block.type)
             title == Lower(entry.block.title)
             duration == TaskDuration(ts, title)
             desired_end == entry.start + duration
         IN  IF (block_type \notin {"task", "todo"} /\ duration = 0)
                \/ duration = 0
                \/ desired_end <= entry.start
             THEN TaskLoop(es, idx + 1, ts)
             ELSE TaskLoop(PushLoop([es EXCEPT ![idx].end = desired_end], idx, idx + 1, desired_end),
                           idx + 1, ts)

apply_task_duration_constraints(es, ts) ==
    IF ~HasTaskMap(ts) THEN es
    ELSE TaskLoop(SortByStart(es), 1, ts)

----------------------------------------------------------------------------
(* core/meals.py *)

MealLabel(i) ==
    CASE i = 1 -> "Meal 1" [] i = 2 -> "Meal 2" [] i = 3 -> "Meal 3"
      [] i = 4 -> "Meal 4" [] i = 5 -> "Meal 5" [] i = 6 -> "Meal 6"
      [] i = 7 -> "Meal 7" [] OTHER -> "Meal 8"

get_expected_meal_titles(n) ==
    CASE n = 1 -> <<"Main Meal">>
      [] n = 2 -> <<"Breakfast", "Dinner">>
      [] n = 3 -> <<"Breakfast", "Lunch", "Dinner">>
      [] n = 4 -> <<"Breakfast", "Snack/Brunch", "Lunch", "Dinner">>
      [] n = 5 -> <<"Breakfast", "Mid-morning Snack", "Lunch", "Afternoon Snack", "Dinner">>
      [] n = 6 -> <<"Breakfast", "Mid-morning Snack", "Lunch", "Afternoon Snack", "Dinner",
                    "Evening Snack">>
      [] OTHER -> [i \in 1..Max(n, 0) |-> MealLabel(i)]

\* the ratios as fractions <<numerator, denominator>>
get_meal_ratios(n) ==
    CASE n = 1 -> << <<50, 100>> >>
      [] n = 2 -> << <<5, 100>>, <<75, 100>> >>
      [] n = 3 -> << <<5, 100>>, <<50, 100>>, <<82, 100>> >>
      [] n = 4 -> << <<4, 100>>, <<25, 100>>, <<55, 100>>, <<82, 100>> >>
      [] n = 5 -> << <<4, 100>>, <<22, 100>>, <<45, 100>>, <<68, 100>>, <<88, 100>> >>
      [] n = 6 -> << <<4, 100>>, <<20, 100>>, <<38, 100>>, <<58, 100>>, <<78, 100>>,
                    <<90, 100>> >>
      [] OTHER -> [i \in 1..Max(n, 0) |->
                     IF 85 * (i - 1) > 90 * Max(n - 1, 1)
                     THEN <<90, 100>>
                     ELSE <<85 * (i - 1), 100 * Max(n - 1, 1)>>]

\* int(span * ratio) is computed in IEEE doubles: for these spans (up to 3000)
\* the product of the table ratios 0.82 and 0.58 falls just below the exact
\* integer and truncates to one less; every other table ratio is exact.
FloatShortfall(span, ratio) ==
    IF \/ ratio = <<82, 100>> /\ span \in {150, 300, 600, 1200, 2350, 2400, 2450}
       \/ ratio = <<58, 100>> /\ span \in {50, 100, 200, 400, 750, 800, 850, 1450, 1500,
                                           1550, 1600, 1650, 1700, 1750, 2850, 2900, 2950, 3000}
    THEN 1 ELSE 0

\* index counts from 1 here (idx + 1 of the source)
calculate_meal_target(index, total, ds, de) ==
    IF total <= 0 THEN ds
    ELSE LET ratio == get_meal_ratios(total)[index]
             span == Max(de - ds, 1)
             target0 == ds + PyDiv(span * ratio[1], ratio[2]) - FloatShortfall(span, ratio)
             target == Max(ds, Min(target0, de - 30))
         IN  target - PyMod(target, 5)

\* violates_meal_spacing that never objects
violates_meal_spacing_never(es, start, end, min_gap, ignore_idx) == FALSE

\* violates_meal_spacing that does not skip the ignored (host) entry
violates_meal_spacing_no_ignore(es, start, end, min_gap, ignore_idx) ==
    /\ min_gap > 0
    /\ \E i \in 1..Len(es) :
          IF es[i].end <= start THEN start - es[i].end < min_gap
          ELSE IF es[i].start >= end THEN es[i].start - end < min_gap
          ELSE TRUE

violates_meal_spacing(es, start, end, min_gap, ignore_idx) ==
    /\ min_gap > 0
    /\ \E i \in 1..Len(es) :
          /\ i # ignore_idx
          /\ IF es[i].end <= start THEN start - es[i].end < min_gap
             ELSE IF es[i].start >= end THEN es[i].start - end < min_gap
             ELSE TRUE

RECURSIVE SegmentLoop(_, _, _, _, _)
SegmentLoop(sorted, i, cursor, de, segments) ==
    IF i > Len(sorted)
    THEN IF de - cursor >= 20 THEN Append(segments, <<cursor, de>>) ELSE segments
    ELSE SegmentLoop(sorted, i + 1, Max(cursor, sorted[i].end), de,
                     IF sorted[i].start - cursor >= 20
                     THEN Append(segments, <<cursor, sorted[i].start>>) ELSE segments)

compute_free_segments(es, ds, de) == SegmentLoop(SortByStart(es), 1, ds, de, <<>>)

MealEntry(start, end, title) ==
    Entry(start, end, [type |-> "meal", title |-> title, focus_required |-> FALSE])

NoMeal == [inserted |-> FALSE, start |-> 0, end |-> 0]

\* pass 1: the best placement inside a free segment, or NoMeal
RECURSIVE FreeSegmentPass(_, _, _, _, _, _)
FreeSegmentPass(es, segments, k, target, min_gap, best) ==
    IF k > Len(segments) THEN best
    ELSE LET seg_start == segments[k][1]
             seg_end == segments[k][2]
             p0 == Max(seg_start, Min(target, seg_end - 30))
             p1 == p0 - PyMod(p0, 5)
             fits == p1 + 30 <= seg_end
             placement_end == IF fits THEN p1 + 30 ELSE seg_end
             placement_start == IF fits THEN p1 ELSE Max(seg_start, seg_end - 30)
             distance == Abs(placement_start - target)
             rejected == \/ seg_end - seg_start < 20
                         \/ placement_end - placement_start < 20
                         \/ violates_meal_spacing(es, placement_start, placement_end, min_gap, 0)
         IN  IF ~rejected /\ (~best.inserted \/ distance < Abs(best.start - target))
             THEN FreeSegmentPass(es, segments, k + 1, target, min_gap,
                      [inserted |-> TRUE, start |-> placement_start, end |-> placement_end])
             ELSE FreeSegmentPass(es, segments, k + 1, target, min_gap, best)

FillerKeywords ==
    {"free", "rest", "buffer", "flex", "break", "personal", "catch", "admin",
     "exercise", "transition", "placeholder"}

\* entries.pop(idx); insert the pieces at idx; sort
SplitEntry(es, idx, meal_start, meal_end, title) ==
    LET entry == es[idx]
        before == IF meal_start - entry.start >= 5
                  THEN <<Entry(entry.start, meal_start, entry.block)>> ELSE <<>>
        after == IF entry.end - meal_end >= 5
                 THEN <<Entry(meal_end, entry.end, entry.block)>> ELSE <<>>
    IN  SortByStart(SubSeq(es, 1, idx - 1) \o before \o <<MealEntry(meal_start, meal_end, title)>>
                    \o after \o SubSeq(es, idx + 1, Len(es)))

\* MealSlot with meal_end = meal_start + 35
MealSlotTooLong(entry, target, reach) ==
    LET m0 == Max(entry.start, Min(target, entry.end - reach))
        m1 == m0 - PyMod(m0, 5)
        fits == m1 + 35 <= entry.end
    IN  IF fits THEN <<m1, m1 + 35>> ELSE <<Max(entry.start, entry.end - 30), entry.end>>

\* the meal slot carved inside one entry; reach is 30 in pass 2 and 25 in pass 3
MealSlot(entry, target, reach) ==
    LET m0 == Max(entry.start, Min(target, entry.end - reach))
        m1 == m0 - PyMod(m0, 5)
        fits == m1 + 30 <= entry.end
    IN  IF fits THEN <<m1, m1 + 30>> ELSE <<Max(entry.start, entry.end - 30), entry.end>>

\* pass 2: split the first convertible filler entry, in start order
RECURSIVE FillerPass(_, _, _, _, _, _, _)
FillerPass(es, order, k, target, title, min_gap, allow_focus_override) ==
    IF k > Len(order) THEN [inserted |-> FALSE, entries |-> es]
    ELSE LET idx == order[k]
             entry == es[idx]
             block_type == Lower(entry.block.type)
             convertible == \E keyword \in FillerKeywords : Contains(block_type, keyword)
             slot == MealSlot(entry, target, 30)
             skipped == \/ block_type \in {"weekly_event", "meal"}
                        \/ entry.block.focus_required /\ ~allow_focus_override
                        \/ ~convertible /\ ~allow_focus_override
                        \/ entry.end - entry.start < 30
                        \/ slot[2] - slot[1] < 20
                        \/ violates_meal_spacing(es, slot[1], slot[2], min_gap, idx)
         IN  IF skipped
             THEN FillerPass(es, order, k + 1, target, title, min_gap, allow_focus_override)
             ELSE [inserted |-> TRUE, entries |-> SplitEntry(es, idx, slot[1], slot[2], title)]

\* pass 3: split the eligible entry whose midpoint is nearest to the target
RECURSIVE MidpointPass(_, _, _, _, _, _)
MidpointPass(es, order, k, target, title, min_gap) ==
    IF k > Len(order) THEN [inserted |-> FALSE, entries |-> es]
    ELSE LET idx == order[k]
             entry == es[idx]
             slot == MealSlot(entry, target, 25)
             skipped == \/ entry.end - entry.start < 20
                        \/ slot[2] - slot[1] < 20
                        \/ violates_meal_spacing(es, slot[1], slot[2], min_gap, idx)
         IN  IF skipped
             THEN MidpointPass(es, order, k + 1, target, title, min_gap)
             ELSE [inserted |-> TRUE, entries |-> SplitEntry(es, idx, slot[1], slot[2], title)]

\* indices of es in the order of sorted(enumerate(es), key=start)
StartOrder(es) ==
    LET keyed == SortByKey([i \in 1..Len(es) |-> [key |-> es[i].start, val |-> i]])
    IN  [i \in 1..Len(es) |-> keyed[i].val]

\* the pass-3 candidates without the filter of lines 221-222
MidpointOrderUnfiltered(es, target, allow_focus_override) ==
    LET keyed == SortByKey([i \in 1..Len(es) |->
                              [key |-> Abs(es[i].start + es[i].end - 2 * target), val |-> i]])
    IN  [i \in 1..Len(keyed) |-> keyed[i].val]

\* indices of the pass-3 candidates, by |midpoint - target| (doubled, to stay integral)
MidpointOrder(es, target, allow_focus_override) ==
    LET Eligible(i) ==
            /\ Lower(es[i].block.type) \notin {"weekly_event", "meal"}
            /\ (allow_focus_override \/ ~es[i].block.focus_required)
        all == [i \in 1..Len(es) |->
                  [key |-> Abs(es[i].start + es[i].end - 2 * target), val |-> i]]
        IsEligible(item) == Eligible(item.val)
        keyed == SortByKey(SelectSeq(all, IsEligible))
    IN  [i \in 1..Len(keyed) |-> keyed[i].val]

insert_meal_entry(es, target, title, ds, de, min_gap, allow_focus_override) ==
    IF de - ds < 20 THEN [inserted |-> FALSE, entries |-> es]
    ELSE LET best == FreeSegmentPass(es, compute_free_segments(es, ds, de), 1, target,
                                     min_gap, NoMeal)
             filler == FillerPass(es, StartOrder(es), 1, target, title, min_gap,
                                  allow_focus_override)
         IN  IF best.inserted
             THEN [inserted |-> TRUE,
                   entries |-> SortByStart(Append(es, MealEntry(best.start, best.end, title)))]
             ELSE IF filler.inserted THEN filler
             ELSE MidpointPass(es, MidpointOrder(es, target, allow_focus_override), 1,
                               target, title, min_gap)

IsMeal(entry) == Lower(entry.block.type) = "meal"
NotMeal(entry) == ~IsMeal(entry)

\* the fallback chain for one title: min_gap 35, then 30, 25, 20 with override
PlaceMeal(es, target, title, ds, de) ==
    LET a35 == insert_meal_entry(es, target, title, ds, de, 35, FALSE)
        a30 == insert_meal_entry(es, target, title, ds, de, 30, TRUE)
        a25 == insert_meal_entry(es, target, title, ds, de, 25, TRUE)
        a20 == insert_meal_entry(es, target, title, ds, de, 20, TRUE)
    IN  IF a35.inserted THEN a35.entries
        ELSE IF a30.inserted THEN a30.entries
        ELSE IF a25.inserted THEN a25.entries
        ELSE a20.entries

RECURSIVE TitleLoop(_, _, _, _, _)
TitleLoop(es, titles, idx, ds, de) ==
    IF idx > Len(titles) THEN es
    ELSE TitleLoop(PlaceMeal(es, calculate_meal_target(idx, Len(titles), ds, de),
                             titles[idx], ds, de),
                   titles, idx + 1, ds, de)

\* indices of the meal entries of es, in start order
MealOrder(es) ==
    LET all == [i \in 1..Len(es) |-> [key |-> es[i].start, val |-> i]]
        IsMealItem(item) == IsMeal(es[item.val])
        keyed == SortByKey(SelectSeq(all, IsMealItem))
    IN  [i \in 1..Len(keyed) |-> keyed[i].val]

\* lines 297-317 leaving every block as it was placed
ReconcileKeepTitles(es, titles) == es

\* lines 297-317: demote the meals beyond the expected titles, relabel the rest
Reconcile(es, titles) ==
    LET order == MealOrder(es)
        Rank(i) == CHOOSE k \in 1..Len(order) : order[k] = i
    IN  [i \in 1..Len(es) |->
           IF ~IsMeal(es[i]) THEN es[i]
           ELSE IF Rank(i) > Len(titles)
                THEN [es[i] EXCEPT !.block = [type |-> "focus_block", title |-> "Focus Block",
                                              focus_required |-> TRUE]]
                ELSE [es[i] EXCEPT !.block = [type |-> "meal", title |-> titles[Rank(i)],
                                              focus_required |-> FALSE]]]

\* ensure_meal_coverage that returns early for n <= 0 without stripping the meals
ensure_meal_coverage_no_strip(es, n, ds, de) ==
    IF n <= 0 THEN es
    ELSE LET titles == get_expected_meal_titles(n)
             placed == TitleLoop(SelectSeq(SortByStart(es), NotMeal), titles, 1, ds, de)
         IN  Reconcile(SortByStart(placed), titles)

ensure_meal_coverage(es, n, ds, de) ==
    IF n <= 0 THEN SelectSeq(es, NotMeal)
    ELSE LET titles == get_expected_meal_titles(n)
             placed == TitleLoop(SelectSeq(SortByStart(es), NotMeal), titles, 1, ds, de)
         IN  Reconcile(SortByStart(placed), titles)

----------------------------------------------------------------------------
(* core/scheduler.py: the final passes over the returned blocks *)

SanitizerKeywords ==
    {"free", "personal", "project", "buffer", "catch", "admin", "rest", "recovery",
     "flex", "exercise", "movement", "leisure", "downtime", "placeholder", "unwind",
     "relax", "misc"}

ProtectedTypes ==
    {"meal", "weekly_event", "morning_routine", "evening_routine", "freetime", "focus_block"}

TaskTitles(ts) == {Lower(ts[i].name) : i \in 1..Len(ts)}

\* sanitize_filler_blocks, for one block
SanitizeBlock(block, ts) ==
    LET block_type == Lower(block.type)
        raw_title == block.title
        title_lower == Lower(raw_title)
        is_filler == \E keyword \in SanitizerKeywords :
                        Contains(block_type, keyword) \/ Contains(title_lower, keyword)
    IN  IF \/ block_type \in ProtectedTypes
           \/ block.focus_required
           \/ StartsWith(block_type, "task") \/ Contains(block_type, "todo")
           \/ Contains(title_lower, "todo") \/ Contains(title_lower, "task")
        THEN block
        ELSE IF title_lower \in TaskTitles(ts)
        THEN [block EXCEPT !.type = "todo"]
        ELSE IF is_filler
        THEN IF Contains(block_type, "free") \/ Contains(title_lower, "free")
             THEN [block EXCEPT !.type = "freetime",
                                !.title = IF raw_title = "" THEN "Free Time" ELSE raw_title,
                                !.focus_required = FALSE]
             ELSE [block EXCEPT !.type = "focus_block", !.title = "Focus Block",
                                !.focus_required = TRUE]
        ELSE block

sanitize_filler_blocks(blocks_list, ts) ==
    [i \in 1..Len(blocks_list) |-> SanitizeBlock(blocks_list[i], ts)]

DefaultTitle(block_type) ==
    CASE block_type = "meal" -> "Meal"
      [] block_type = "weekly_event" -> "Weekly Event"
      [] block_type = "morning_routine" -> "Morning Routine"
      [] OTHER -> "Evening Routine"

\* normalize_focus_blocks, for one block
NormalizeBlock(block, ts) ==
    LET block_type == Lower(block.type)
        title == block.title
        title_lower == Lower(title)
    IN  IF block_type = "freetime"
        THEN [block EXCEPT !.title = IF title = "" THEN "Free Time" ELSE title,
                           !.focus_required = FALSE]
        ELSE IF block_type \in {"meal", "weekly_event", "morning_routine", "evening_routine"}
        THEN [block EXCEPT !.title = IF title = "" THEN DefaultTitle(block_type) ELSE title,
                           !.focus_required = FALSE]
        ELSE IF StartsWith(block_type, "task") \/ Contains(block_type, "todo")
        THEN block
        ELSE IF \/ title_lower \in TaskTitles(ts)
                \/ Contains(title_lower, "todo") \/ Contains(title_lower, "task")
        THEN [block EXCEPT !.type = "todo"]
        ELSE [block EXCEPT !.type = "focus_block",
                           !.title = IF title = "" THEN "Focus Block" ELSE title,
                           !.focus_required = TRUE]

normalize_focus_blocks(blocks_list, ts) ==
    [i \in 1..Len(blocks_list) |-> NormalizeBlock(blocks_list[i], ts)]

----------------------------------------------------------------------------
(* core/scheduler.py: post_process_schedule *)

\* lines 437-448: widen the window over the events
RECURSIVE WidenLoop(_, _, _, _, _, _, _)
WidenLoop(events, k, earliest, latest, wake, sleep, crosses) ==
    IF k > Len(events) THEN <<earliest, latest>>
    ELSE LET event == events[k]
             w == normalize_window(parse_time(event.start), parse_time(event.end),
                                   wake, sleep, crosses)
         IN  IF event.start = Missing \/ event.end = Missing
             THEN WidenLoop(events, k + 1, earliest, latest, wake, sleep, crosses)
             ELSE WidenLoop(events, k + 1, Min(earliest, w[1]), Max(latest, w[2]),
                            wake, sleep, crosses)

\* ResolveWindow without lines 450-451: the window is not widened over the events
ResolveWindowNotWidened(prefs, events) ==
    LET wake == parse_time(prefs.wake_time)
        sleep == parse_time(prefs.sleep_time)
        crosses == sleep <= wake
    IN  [wake_minutes |-> wake, sleep_minutes |-> sleep, crosses_midnight |-> crosses,
         day_start |-> wake,
         day_end |-> IF crosses THEN sleep + MINUTES_PER_DAY ELSE sleep]

\* lines 421-451: the day window
ResolveWindow(prefs, events) ==
    LET wake == parse_time(prefs.wake_time)
        sleep == parse_time(prefs.sleep_time)
        crosses == sleep <= wake
        ds0 == wake
        de0 == IF crosses THEN sleep + MINUTES_PER_DAY ELSE sleep
        wide == WidenLoop(events, 1, ds0, de0, wake, sleep, crosses)
    IN  [wake_minutes |-> wake, sleep_minutes |-> sleep, crosses_midnight |-> crosses,
         day_start |-> IF events = <<>> THEN ds0 ELSE Min(ds0, wide[1]),
         day_end |-> IF events = <<>> THEN de0 ELSE Max(de0, wide[2])]

\* lines 456-476: ingestion of the raw blocks
RECURSIVE IngestLoop(_, _, _, _, _)
IngestLoop(raw_blocks, k, w, ds, de) ==
    IF k > Len(raw_blocks) THEN <<>>
    ELSE LET block == raw_blocks[k]
             rest == IngestLoop(raw_blocks, k + 1, w, ds, de)
             win == normalize_window(parse_time(block.start), parse_time(block.end),
                                     w.wake_minutes, w.sleep_minutes, w.crosses_midnight)
             start_clamped == Max(win[1], ds)
             end_clamped == Min(win[2], de)
         IN  IF block.start = Missing \/ block.end = Missing THEN rest
             ELSE IF end_clamped - start_clamped < 1 THEN rest
             ELSE <<Entry(start_clamped, end_clamped,
                          [type |-> block.type, title |-> block.title,
                           focus_required |-> block.focus_required])>> \o rest

Ingest(raw_blocks, w) ==
    SortByStart(IngestLoop(raw_blocks, 1, w, w.day_start, w.day_end))

\* lines 484-490: sort, render the clock strings
Render(es) ==
    LET sorted == SortByStart(es)
    IN  [i \in 1..Len(sorted) |->
           [start |-> minutes_to_time(sorted[i].start),
            end |-> minutes_to_time(sorted[i].end),
            type |-> sorted[i].block.type,
            title |-> sorted[i].block.title,
            focus_required |-> sorted[i].block.focus_required]]

\* lines 484-494
Emit(es, ts) == normalize_focus_blocks(sanitize_filler_blocks(Render(es), ts), ts)

\* the entry list after line 482
Pipeline(raw_blocks, prefs, ts, n, events) ==
    LET w == ResolveWindow(prefs, events)
        e1 == Ingest(raw_blocks, w)
        e2 == enforce_weekly_events(e1, events, w.day_start, w.day_end, w.wake_minutes,
                                    w.sleep_minutes, w.crosses_midnight)
        e3 == ensure_routines(e2, w.day_start, w.day_end, prefs)
        e4 == apply_task_duration_constraints(e3, ts)
        e5 == ensure_meal_coverage(e4, n, w.day_start, w.day_end)
    IN  fill_gaps_with_focus(e5, w.day_start, w.day_end, prefs)

post_process_schedule(raw_blocks, prefs, ts, n, events) ==
    Emit(Pipeline(raw_blocks, prefs, ts, n, events), ts)

----------------------------------------------------------------------------
(* Inputs of the model *)

Prefs(wake, sleep) ==
    [wake_time |-> wake, sleep_time |-> sleep, focus_block_length |-> 50,
     break_length |-> 0, morning_routine_length |-> 30, evening_routine_length |-> 30]

PrefsWith(wake, sleep, focus_len, break_len) ==
    [wake_time |-> wake, sleep_time |-> sleep, focus_block_length |-> focus_len,
     break_length |-> break_len, morning_routine_length |-> 30,
     evening_routine_length |-> 30]

RawBlock(start, end, type, title) ==
    [start |-> start, end |-> end, type |-> type, title |-> title, focus_required |-> FALSE]

Event(start, end, title) == [start |-> start, end |-> end, title |-> title]

Task(name, duration) == [name |-> name, duration |-> duration]

BlockPool ==
    { RawBlock(<<9, 0>>, <<9, 20>>, "task", "Essay"),
      RawBlock(<<9, 20>>, <<9, 50>>, "lecture", "Study"),
      RawBlock(<<8, 0>>, <<10, 30>>, "task", "Nap"),
      RawBlock(<<12, 0>>, <<12, 30>>, "meal", "Lunch"),
      RawBlock(<<14, 30>>, <<15, 30>>, "buffer", ""),
      RawBlock(<<20, 0>>, <<20, 25>>, "break", "") }

\* raw blocks with an unparsable or absent clock string
MalformedPool ==
    { RawBlock(Malformed, <<10, 0>>, "task", "Nap"),
      RawBlock(<<13, 0>>, Malformed, "task", "Nap"),
      RawBlock(<<16, 0>>, Missing, "task", "Nap"),
      RawBlock(Missing, <<17, 0>>, "lecture", "Study") }

EventPool ==
    { Event(<<6, 0>>, <<7, 0>>, "Gym"),
      Event(<<10, 0>>, <<11, 30>>, "Physics Lecture") }

TaskPool == { <<>>, <<Task("essay", 45)>> }

ClockPairs ==
    { << <<7, 0>>, <<23, 0>> >>, << <<8, 0>>, <<1, 0>> >>, << <<7, 2>>, <<15, 30>> >> }

MealCounts == 0..6

\* the general family: raw blocks, events and tasks over two day windows
Scenarios ==
    { [schedule |-> b, preferences |-> Prefs(c[1], c[2]), tasks |-> t, meals_count |-> n,
       todays_events |-> e] :
         b \in SeqsUpTo(BlockPool, MaxBlocks), c \in ClockPairs, t \in TaskPool,
         n \in {0, 3}, e \in SeqsUpTo(EventPool, MaxEvents) }

\* the malformed family: at least one raw block is malformed
MalformedScenarios ==
    { [schedule |-> b, preferences |-> Prefs(<<7, 0>>, <<23, 0>>), tasks |-> <<>>,
       meals_count |-> n, todays_events |-> <<>>] :
         b \in {q \in SeqsUpTo(BlockPool \cup MalformedPool, MaxBlocks) :
                   \E k \in 1..Len(q) : q[k] \in MalformedPool},
         n \in {0, 3} }

\* the task family: a task block, a movable neighbour and a weekly event
TaskScenarios ==
    LET TaskBlockPool ==
            { RawBlock(<<9, 0>>, <<9, 20>>, "task", "Essay"),
              RawBlock(<<9, 20>>, <<9, 50>>, "lecture", "Study"),
              RawBlock(<<13, 0>>, <<14, 0>>, "focus_block", "Essay") }
    IN  { [schedule |-> b, preferences |-> Prefs(<<7, 0>>, <<23, 0>>), tasks |-> t,
           meals_count |-> 0, todays_events |-> e] :
             b \in SeqsUpTo(TaskBlockPool, MaxBlocks),
             t \in {<<Task("essay", 45)>>, <<Task("Essay", 90), Task("essay", 0)>>},
             e \in {<<>>, <<Event(<<10, 0>>, <<11, 30>>, "Physics Lecture")>>} }

\* the meal family: every meal count over empty days of several widths
MealScenarios ==
    LET MealClockPairs ==
            { << <<7, 0>>, <<23, 0>> >>, << <<7, 0>>, <<8, 0>> >>, << <<7, 0>>, <<10, 0>> >>,
              << <<8, 0>>, <<1, 0>> >>, << <<7, 2>>, <<15, 30>> >> }
    IN  { [schedule |-> <<>>, preferences |-> Prefs(c[1], c[2]), tasks |-> <<>>,
           meals_count |-> n, todays_events |-> <<>>] :
             c \in MealClockPairs, n \in MealCounts }

\* the re-run family: short days, whose output is fed back as the schedule
RerunScenarios ==
    LET RerunClockPairs ==
            { << <<7, 0>>, <<10, 0>> >>, << <<7, 0>>, <<8, 0>> >>, << <<23, 0>>, <<1, 30>> >>,
              << <<7, 2>>, <<9, 30>> >> }
    IN  { [schedule |-> <<>>, preferences |-> Prefs(c[1], c[2]), tasks |-> <<>>,
           meals_count |-> n, todays_events |-> <<>>] :
             c \in RerunClockPairs, n \in MealCounts }

\* the window family: wake/sleep pairs and events around midnight
WindowScenarios ==
    LET WindowClocks == { <<0, 0>>, <<1, 0>>, <<7, 0>>, <<8, 0>>, <<23, 0>>, <<23, 59>> }
        WindowEventPool ==
            EventPool \cup
            { Event(<<0, 30>>, <<2, 0>>, "Gym"),
              Event(<<23, 30>>, <<0, 30>>, "Gym"),
              Event(<<12, 0>>, <<12, 3>>, "Gym") }
    IN  { [schedule |-> <<>>, preferences |-> Prefs(wake, sleep), tasks |-> <<>>,
           meals_count |-> 0, todays_events |-> e] :
             wake \in WindowClocks, sleep \in WindowClocks,
             e \in SeqsUpTo(WindowEventPool, MaxEvents) }

\* the midnight family: windows that cross midnight, blocks around midnight
MidnightScenarios ==
    LET MidnightClockPairs ==
            { << <<8, 0>>, <<1, 0>> >>, << <<22, 0>>, <<6, 0>> >>, << <<7, 0>>, <<7, 0>> >> }
        MidnightBlockPool ==
            { RawBlock(<<0, 0>>, <<0, 10>>, "task", "Essay"),
              RawBlock(<<0, 10>>, <<0, 20>>, "lecture", "Study"),
              RawBlock(<<23, 30>>, <<0, 30>>, "task", "Nap"),
              RawBlock(<<0, 10>>, <<0, 40>>, "buffer", "") }
    IN  { [schedule |-> b, preferences |-> Prefs(c[1], c[2]), tasks |-> t, meals_count |-> n,
           todays_events |-> <<>>] :
             b \in SeqsUpTo(MidnightBlockPool, MaxBlocks), c \in MidnightClockPairs,
             t \in TaskPool, n \in {0, 3} }

\* the termination family: short days, focus lengths below 5, breaks, bad clocks
TerminationScenarios ==
    LET TerminationBlockPool ==
            { RawBlock(<<9, 0>>, <<9, 20>>, "task", "Essay"),
              RawBlock(<<8, 0>>, <<9, 30>>, "focus_block", ""),
              RawBlock(Malformed, <<9, 0>>, "buffer", "") }
    IN  { [schedule |-> b, preferences |-> PrefsWith(<<7, 0>>, sleep, focus_len, break_len),
           tasks |-> <<Task("essay", 45)>>, meals_count |-> n, todays_events |-> e] :
             b \in SeqsUpTo(TerminationBlockPool, MaxBlocks), sleep \in {<<10, 0>>, <<7, 20>>},
             focus_len \in {3, 50}, break_len \in {0, 10}, n \in {0, 3},
             e \in SeqsUpTo(EventPool, MaxEvents) }

\* the stage family: a stage is handed entries and a window directly
StageScenarios ==
    LET StageEntryPool ==
            { Entry(400, 440, [type |-> "task", title |-> "Essay", focus_required |-> FALSE]),
              Entry(430, 460, [type |-> "focus_block", title |-> "Focus Block", focus_required |-> TRUE]),
              Entry(425, 455, [type |-> "meal", title |-> "Lunch", focus_required |-> FALSE]) }
        StageWindows == { <<420, 420>>, <<420, 360>>, <<420, 421>>, <<420, 470>> }
    IN  { [stage |-> st, entries |-> es, window |-> w, preferences |-> PrefsWith(<<7, 0>>, <<7, 0>>, focus_len, 0),
           tasks |-> <<Task("essay", 45)>>, meals_count |-> n, todays_events |-> e] :
             st \in {"events", "meals"},
             es \in SeqsUpTo(StageEntryPool, MaxBlocks), w \in StageWindows,
             focus_len \in {3, 50}, n \in {0, 3}, e \in SeqsUpTo(EventPool, MaxEvents) }

\* the focus-sequence family: build_focus_sequence called on its own
SequenceScenarios ==
    { [start |-> 0, end |-> end, preferences |-> PrefsWith(<<7, 0>>, <<23, 0>>, focus_len, break_len)] :
         end \in {-5, 0, 4, 5, 6, 37, 50, 60}, focus_len \in {-3, 0, 3, 5, 20},
         break_len \in {0, 10} }

\* the carve family: enforce_weekly_events called on entry lists that
\* straddle, touch, fill or miss the event
CarveScenarios ==
    LET CarveEntryPool ==
            { Entry(540, 700, [type |-> "task", title |-> "Essay", focus_required |-> FALSE]),
              Entry(590, 620, [type |-> "focus_block", title |-> "Focus Block", focus_required |-> TRUE]),
              Entry(620, 650, [type |-> "meal", title |-> "Lunch", focus_required |-> FALSE]),
              Entry(680, 720, [type |-> "weekly_event", title |-> "Gym", focus_required |-> FALSE]),
              Entry(690, 760, [type |-> "lecture", title |-> "Study", focus_required |-> FALSE]),
              Entry(540, 600, [type |-> "task", title |-> "Study", focus_required |-> FALSE]) }
        CarveEventPool ==
            { Event(<<10, 0>>, <<11, 30>>, "Physics Lecture"),
              Event(<<10, 0>>, <<10, 3>>, "Gym"),
              Event(<<6, 0>>, <<9, 30>>, ""),
              Event(<<12, 30>>, <<10, 30>>, "Gym") }
        CarveWindows == { <<420, 1380>>, <<560, 680>> }
    IN  { [stage |-> "events", entries |-> es, window |-> w, preferences |-> Prefs(<<7, 0>>, <<23, 0>>),
           tasks |-> <<>>, meals_count |-> 0, todays_events |-> e] :
             es \in SeqsUpTo(CarveEntryPool, MaxBlocks), w \in CarveWindows,
             e \in SeqsUpTo(CarveEventPool, MaxEvents) }

\* the sequential family: enforce_weekly_events called with events that
\* overlap each other, on a sorted entry list
SequentialScenarios ==
    LET SequentialEntryPool ==
            { Entry(600, 660, [type |-> "task", title |-> "Essay", focus_required |-> FALSE]),
              Entry(840, 900, [type |-> "weekly_event", title |-> "Gym", focus_required |-> FALSE]),
              Entry(870, 930, [type |-> "weekly_event", title |-> "Physics Lecture", focus_required |-> FALSE]) }
        SequentialEventPool ==
            { Event(<<10, 0>>, <<11, 30>>, "Physics Lecture"),
              Event(<<11, 0>>, <<12, 0>>, "Gym"),
              Event(<<10, 30>>, <<11, 0>>, ""),
              Event(<<10, 0>>, <<10, 3>>, "Gym") }
    IN  { [stage |-> "events", entries |-> es, window |-> <<420, 1380>>, preferences |-> Prefs(<<7, 0>>, <<23, 0>>),
           tasks |-> <<>>, meals_count |-> 0, todays_events |-> e] :
             es \in {x \in SeqsUpTo(SequentialEntryPool, MaxBlocks) :
                        \A i \in 1..(Len(x) - 1) : x[i].start <= x[i + 1].start},
             e \in SeqsUpTo(SequentialEventPool, MaxEvents + 1) }

\* the routine family: ensure_routines called on short and long windows with
\* routine-length preferences below, at and above the window
RoutineScenarios ==
    LET RoutineEntryPool ==
            { Entry(420, 421, [type |-> "task", title |-> "Essay", focus_required |-> FALSE]),
              Entry(421, 427, [type |-> "morning_routine", title |-> "Morning Routine", focus_required |-> FALSE]),
              Entry(420, 465, [type |-> "focus_block", title |-> "Focus Block", focus_required |-> TRUE]),
              Entry(460, 540, [type |-> "meal", title |-> "Lunch", focus_required |-> FALSE]) }
        RoutineWindows == { <<420, 421>>, <<420, 422>>, <<420, 423>>, <<420, 465>>, <<420, 540>> }
        RoutineLengths == {-5, 0, 1, 30, 90}
    IN  { sc \in { [stage |-> "events", entries |-> es, window |-> w,
                    preferences |-> [Prefs(<<7, 0>>, <<7, 0>>) EXCEPT !.morning_routine_length = m,
                                                                     !.evening_routine_length = e],
                    tasks |-> <<>>, meals_count |-> 0, todays_events |-> <<>>] :
                      w \in RoutineWindows, m \in RoutineLengths, e \in RoutineLengths,
                      es \in SeqsUpTo(RoutineEntryPool, MaxBlocks) } :
            /\ \A i \in 1..Len(sc.entries) : sc.entries[i].end <= sc.window[2]
            /\ \A i \in 1..(Len(sc.entries) - 1) : sc.entries[i].start <= sc.entries[i + 1].start }

\* the namesake family: tasks named like a weekly event or like a block
NamesakeScenarios ==
    LET NamesakeBlockPool ==
            { RawBlock(<<9, 0>>, <<9, 20>>, "task", "Essay"),
              RawBlock(<<9, 20>>, <<9, 50>>, "lecture", "Study"),
              RawBlock(<<12, 0>>, <<12, 30>>, "lecture", "Physics Lecture") }
        NamesakeTaskPool ==
            { <<Task("Physics Lecture", 45)>>, <<Task("essay", 45)>>, <<Task("study", 20)>> }
    IN  { [schedule |-> b, preferences |-> Prefs(<<7, 0>>, <<23, 0>>), tasks |-> t,
           meals_count |-> 0, todays_events |-> e] :
             b \in SeqsUpTo(NamesakeBlockPool, MaxBlocks), t \in NamesakeTaskPool,
             e \in SeqsUpTo({Event(<<10, 0>>, <<11, 30>>, "Physics Lecture")}, MaxEvents) }

\* the spacing family: days so short that the meals crowd each other, with
\* and without entries that can host a meal
SpacingScenarios ==
    LET SpacingClockPairs ==
            { << <<7, 0>>, <<7, 15>> >>, << <<7, 3>>, <<8, 30>> >>,
              << <<7, 0>>, <<8, 20>> >>, << <<7, 0>>, <<8, 25>> >>, << <<7, 0>>, <<8, 30>> >>,
              << <<7, 0>>, <<10, 0>> >>, << <<7, 0>>, <<13, 0>> >> }
        SpacingBlockPool ==
            { RawBlock(<<7, 30>>, <<8, 30>>, "break", ""),
              RawBlock(<<7, 40>>, <<8, 40>>, "task", "Essay"),
              [RawBlock(<<7, 30>>, <<9, 30>>, "focus_block", "Focus Block") EXCEPT !.focus_required = TRUE] }
    IN  { [schedule |-> b, preferences |-> Prefs(c[1], c[2]), tasks |-> <<>>,
           meals_count |-> n, todays_events |-> e] :
             b \in SeqsUpTo(SpacingBlockPool, MaxBlocks), c \in SpacingClockPairs,
             n \in MealCounts, e \in SeqsUpTo({Event(<<7, 40>>, <<8, 5>>, "Gym")}, MaxEvents) }

\* the type family: raw blocks of many type strings
TypeScenarios ==
    LET TypeBlockPool ==
            { RawBlock(<<9, 0>>, <<9, 30>>, "tasks", "Study"),
              RawBlock(<<10, 0>>, <<10, 30>>, "Freetime", "Nap"),
              RawBlock(<<11, 0>>, <<11, 30>>, "lecture", "Essay"),
              RawBlock(<<13, 0>>, <<13, 30>>, "free_time", ""),
              RawBlock(<<14, 0>>, <<14, 30>>, "break", "Study"),
              RawBlock(<<16, 0>>, <<16, 30>>, "", "") }
    IN  { [schedule |-> b, preferences |-> Prefs(<<7, 0>>, <<23, 0>>), tasks |-> t,
           meals_count |-> n, todays_events |-> <<>>] :
             b \in SeqsUpTo(TypeBlockPool, MaxBlocks), t \in TaskPool, n \in {0, 3} }

\* the gap-filler family: fill_gaps_with_focus called on entry lists, in any
\* order, whose entries do not overlap and lie inside the window
FillScenarios ==
    LET FillEntryPool ==
            { Entry(430, 460, [type |-> "task", title |-> "Essay", focus_required |-> FALSE]),
              Entry(460, 520, [type |-> "focus_block", title |-> "Essay", focus_required |-> TRUE]),
              Entry(420, 430, [type |-> "focus", title |-> "", focus_required |-> FALSE]),
              Entry(475, 535, [type |-> "focus_placeholder", title |-> "", focus_required |-> FALSE]),
              Entry(520, 540, [type |-> "meal", title |-> "Lunch", focus_required |-> FALSE]),
              Entry(535, 540, [type |-> "freetime", title |-> "Nap", focus_required |-> FALSE]) }
        FillWindows == { <<420, 540>>, <<400, 600>>, <<420, 420>> }
    IN  { sc \in { [stage |-> "fill", entries |-> es, window |-> w,
                    preferences |-> PrefsWith(<<7, 0>>, <<9, 0>>, focus_len, break_len),
                    tasks |-> <<>>, meals_count |-> 0, todays_events |-> <<>>] :
                      es \in SeqsUpTo(FillEntryPool, MaxBlocks + 1), w \in FillWindows,
                      focus_len \in {3, 20, 50}, break_len \in {0, 10} } :
            /\ \A i \in 1..Len(sc.entries) :
                  sc.window[1] <= sc.entries[i].start /\ sc.entries[i].end <= sc.window[2]
            /\ \A i, j \in 1..Len(sc.entries) :
                  i # j => \/ sc.entries[i].end <= sc.entries[j].start
                           \/ sc.entries[j].end <= sc.entries[i].start }

----------------------------------------------------------------------------
(* The state machine: one call of post_process_schedule, stage by stage *)

Start(inputs) ==
    /\ pc = "resolve"
    /\ run = 1
    /\ schedule = inputs.schedule
    /\ preferences = inputs.preferences
    /\ tasks = inputs.tasks
    /\ meals_count = inputs.meals_count
    /\ todays_events = inputs.todays_events
    /\ wake_minutes = 0 /\ sleep_minutes = 0 /\ crosses_midnight = FALSE
    /\ day_start = 0 /\ day_end = 0
    /\ entries = <<>>
    /\ new_blocks = <<>>
    /\ first_blocks = <<>>
    /\ first_entries = <<>>
    /\ seq_start = 0 /\ seq_end = 0 /\ seq_cursor = 0 /\ seq_segments = <<>>
    /\ meal_idx = 0 /\ meal_gap = 0 /\ meal_pass = 0
    /\ raw_start = 0 /\ raw_end = 0 /\ norm_start = 0 /\ norm_end = 0

Init == \E inputs \in Scenarios : Start(inputs)
\* a stage called directly: the entries and the window are the caller's
StartStage(inputs) ==
    /\ pc = inputs.stage
    /\ run = 1
    /\ schedule = <<>>
    /\ preferences = inputs.preferences
    /\ tasks = inputs.tasks
    /\ meals_count = inputs.meals_count
    /\ todays_events = inputs.todays_events
    /\ wake_minutes = inputs.window[1] /\ sleep_minutes = inputs.window[2]
    /\ crosses_midnight = FALSE
    /\ day_start = inputs.window[1] /\ day_end = inputs.window[2]
    /\ entries = inputs.entries
    /\ new_blocks = <<>>
    /\ first_blocks = <<>>
    /\ first_entries = <<>>
    /\ seq_start = 0 /\ seq_end = 0 /\ seq_cursor = 0 /\ seq_segments = <<>>
    /\ meal_idx = 0 /\ meal_gap = 0 /\ meal_pass = 0
    /\ raw_start = 0 /\ raw_end = 0 /\ norm_start = 0 /\ norm_end = 0

\* build_focus_sequence called directly, at its first line
StartSequence(inputs) ==
    /\ pc = "focus_loop"
    /\ run = 1
    /\ schedule = <<>>
    /\ preferences = inputs.preferences
    /\ tasks = <<>>
    /\ meals_count = 0
    /\ todays_events = <<>>
    /\ wake_minutes = 0 /\ sleep_minutes = 0 /\ crosses_midnight = FALSE
    /\ day_start = 0 /\ day_end = 0
    /\ entries = <<>>
    /\ new_blocks = <<>>
    /\ first_blocks = <<>>
    /\ first_entries = <<>>
    /\ seq_start = inputs.start /\ seq_end = inputs.end
    /\ seq_cursor = inputs.start /\ seq_segments = <<>>
    /\ meal_idx = 0 /\ meal_gap = 0 /\ meal_pass = 0
    /\ raw_start = 0 /\ raw_end = 0 /\ norm_start = 0 /\ norm_end = 0

\* normalize_window called directly
StartNormalize(start_clock, end_clock, wake, sleep, crosses) ==
    /\ pc = "normalize"
    /\ run = 1
    /\ schedule = <<>>
    /\ preferences = Prefs(<<7, 0>>, <<23, 0>>)
    /\ tasks = <<>>
    /\ meals_count = 0
    /\ todays_events = <<>>
    /\ wake_minutes = wake /\ sleep_minutes = sleep /\ crosses_midnight = crosses
    /\ day_start = 0 /\ day_end = 0
    /\ entries = <<>>
    /\ new_blocks = <<>>
    /\ first_blocks = <<>>
    /\ first_entries = <<>>
    /\ seq_start = 0 /\ seq_end = 0 /\ seq_cursor = 0 /\ seq_segments = <<>>
    /\ meal_idx = 0 /\ meal_gap = 0 /\ meal_pass = 0
    /\ raw_start = start_clock /\ raw_end = end_clock /\ norm_start = 0 /\ norm_end = 0

InitTermination ==
    \/ \E inputs \in TerminationScenarios : Start(inputs)
    \/ \E inputs \in StageScenarios : StartStage(inputs)
    \/ \E inputs \in SequenceScenarios : StartSequence(inputs)

inputs_vars == <<schedule, preferences, tasks, meals_count, todays_events>>
window_vars == <<wake_minutes, sleep_minutes, crosses_midnight, day_start, day_end>>
history_vars == <<run, first_blocks, first_entries>>
seq_vars == <<seq_start, seq_end, seq_cursor, seq_segments>>
meal_vars == <<meal_idx, meal_gap, meal_pass>>
norm_vars == <<raw_start, raw_end, norm_start, norm_end>>

Window ==
    [wake_minutes |-> wake_minutes, sleep_minutes |-> sleep_minutes,
     crosses_midnight |-> crosses_midnight, day_start |-> day_start, day_end |-> day_end]

Resolve ==
    /\ pc = "resolve"
    /\ LET w == ResolveWindow(preferences, todays_events)
       IN  /\ wake_minutes' = w.wake_minutes
           /\ sleep_minutes' = w.sleep_minutes
           /\ crosses_midnight' = w.crosses_midnight
           /\ day_start' = w.day_start
           /\ day_end' = w.day_end
    /\ pc' = "ingest"
    /\ UNCHANGED <<norm_vars, meal_vars, inputs_vars, history_vars, seq_vars, entries, new_blocks>>

IngestBlocks ==
    /\ pc = "ingest"
    /\ entries' = Ingest(schedule, Window)
    /\ pc' = "events"
    /\ UNCHANGED <<norm_vars, meal_vars, inputs_vars, window_vars, history_vars, seq_vars, new_blocks>>

EnforceWeeklyEvents ==
    /\ pc = "events"
    /\ entries' = enforce_weekly_events(entries, todays_events, day_start, day_end,
                                        wake_minutes, sleep_minutes, crosses_midnight)
    /\ pc' = "routines"
    /\ UNCHANGED <<norm_vars, meal_vars, inputs_vars, window_vars, history_vars, seq_vars, new_blocks>>

EnsureRoutines ==
    /\ pc = "routines"
    /\ entries' = ensure_routines(entries, day_start, day_end, preferences)
    /\ pc' = "tasks"
    /\ UNCHANGED <<norm_vars, meal_vars, inputs_vars, window_vars, history_vars, seq_vars, new_blocks>>

ApplyTaskDurations ==
    /\ pc = "tasks"
    /\ entries' = apply_task_duration_constraints(entries, tasks)
    /\ pc' = "meals"
    /\ UNCHANGED <<norm_vars, meal_vars, inputs_vars, window_vars, history_vars, seq_vars, new_blocks>>

EnsureMealCoverage ==
    /\ pc = "meals"
    /\ entries' = ensure_meal_coverage(entries, meals_count, day_start, day_end)
    /\ pc' = "fill"
    /\ UNCHANGED <<norm_vars, meal_vars, inputs_vars, window_vars, history_vars, seq_vars, new_blocks>>

FillGaps ==
    /\ pc = "fill"
    /\ entries' = fill_gaps_with_focus(entries, day_start, day_end, preferences)
    /\ pc' = "emit"
    /\ UNCHANGED <<norm_vars, meal_vars, inputs_vars, window_vars, history_vars, seq_vars, new_blocks>>

EmitBlocks ==
    /\ pc = "emit"
    /\ entries' = SortByStart(entries)
    /\ new_blocks' = Emit(entries, tasks)
    /\ pc' = "done"
    /\ UNCHANGED <<norm_vars, meal_vars, inputs_vars, window_vars, history_vars, seq_vars>>

\* the caller feeds the returned blocks back in as the raw input
Rerun ==
    /\ pc = "done"
    /\ run = 1
    /\ run' = 2
    /\ first_blocks' = new_blocks
    /\ first_entries' = entries
    /\ schedule' = new_blocks
    /\ entries' = <<>>
    /\ new_blocks' = <<>>
    /\ pc' = "resolve"
    /\ UNCHANGED <<norm_vars, meal_vars, preferences, tasks, meals_count, todays_events, window_vars, seq_vars>>

\* one iteration of the while loop of build_focus_sequence (lines 47-56)
FocusIterate ==
    /\ pc = "focus_loop"
    /\ seq_cursor + FocusLength(preferences) < seq_end
    /\ LET focus_len == FocusLength(preferences)
           break_len == BreakLength(preferences)
           block_end == seq_cursor + focus_len
           with_focus == Append(seq_segments, create_focus_entry(seq_cursor, block_end))
           remaining == seq_end - block_end
       IN  IF break_len > 0 /\ remaining >= break_len + focus_len
           THEN /\ seq_segments' = Append(with_focus,
                                          create_free_time_entry(block_end, block_end + break_len))
                /\ seq_cursor' = block_end + break_len
           ELSE /\ seq_segments' = with_focus
                /\ seq_cursor' = block_end
    /\ UNCHANGED <<norm_vars, meal_vars, pc, inputs_vars, window_vars, history_vars, entries, new_blocks,
                   seq_start, seq_end>>

\* the loop exit, the tail and the return of build_focus_sequence (lines 58-61)
FocusTail ==
    /\ pc = "focus_loop"
    /\ ~(seq_cursor + FocusLength(preferences) < seq_end)
    /\ seq_segments' = IF seq_cursor < seq_end
                       THEN Append(seq_segments, create_free_time_entry(seq_cursor, seq_end))
                       ELSE seq_segments
    /\ pc' = "focus_done"
    /\ UNCHANGED <<norm_vars, meal_vars, inputs_vars, window_vars, history_vars, entries, new_blocks,
                   seq_start, seq_end, seq_cursor>>

\* blocks.py lines 48-60, as called at lines 444 and 463 of scheduler.py
NormalizeWindow ==
    /\ pc = "normalize"
    /\ LET w == normalize_window(raw_start, raw_end, wake_minutes, sleep_minutes,
                                 crosses_midnight)
       IN  norm_start' = w[1] /\ norm_end' = w[2]
    /\ pc' = "normalized"
    /\ UNCHANGED <<raw_start, raw_end, meal_vars, inputs_vars, window_vars, history_vars,
                   seq_vars, entries, new_blocks>>

\* the fallback chain that jumps from any threshold straight to 20
NextGapSkipping(g) == 20

\* lines 289-295: the min_gap of the call that follows a failed call
NextGap(g) == CASE g = 35 -> 30 [] g = 30 -> 25 [] OTHER -> 20

\* insert_meal_entry returned an entry: the loop of line 287 moves to the next title
TitlePlaced(es) ==
    /\ entries' = es
    /\ meal_idx' = meal_idx + 1
    /\ meal_gap' = 35
    /\ meal_pass' = 0
    /\ pc' = IF meal_idx + 1 > Len(get_expected_meal_titles(meals_count))
             THEN "reconcile" ELSE "attempt"
    /\ UNCHANGED <<norm_vars, inputs_vars, window_vars, history_vars, seq_vars, new_blocks>>

\* insert_meal_entry returned None: the next call of the chain, or after the
\* call with min_gap 20 the next title
AttemptFailed ==
    /\ entries' = entries
    /\ meal_pass' = 0
    /\ IF meal_gap = 20
       THEN /\ meal_idx' = meal_idx + 1
            /\ meal_gap' = 35
            /\ pc' = IF meal_idx + 1 > Len(get_expected_meal_titles(meals_count))
                     THEN "reconcile" ELSE "attempt"
       ELSE /\ meal_idx' = meal_idx
            /\ meal_gap' = NextGap(meal_gap)
            /\ pc' = "attempt"
    /\ UNCHANGED <<norm_vars, inputs_vars, window_vars, history_vars, seq_vars, new_blocks>>

\* the target of the title being placed (line 288)
MealTarget ==
    calculate_meal_target(meal_idx, Len(get_expected_meal_titles(meals_count)),
                          day_start, day_end)

\* ensure_meal_coverage, lines 277-285: strip the meals, start the title loop
CoverageBegin ==
    /\ pc = "meals"
    /\ IF meals_count <= 0
       THEN /\ entries' = SelectSeq(entries, NotMeal)
            /\ pc' = "fill"
            /\ UNCHANGED meal_vars
       ELSE /\ entries' = SelectSeq(SortByStart(entries), NotMeal)
            /\ pc' = "attempt"
            /\ meal_idx' = 1
            /\ meal_gap' = 35
            /\ meal_pass' = 0
    /\ UNCHANGED <<norm_vars, inputs_vars, window_vars, history_vars, seq_vars, new_blocks>>

\* insert_meal_entry, lines 109-110: a window under 20 minutes returns None
InsertBegin ==
    /\ pc = "attempt"
    /\ meal_pass = 0
    /\ IF day_end - day_start < 20
       THEN AttemptFailed
       ELSE /\ meal_pass' = 1
            /\ UNCHANGED <<norm_vars, pc, meal_idx, meal_gap, entries, inputs_vars, window_vars,
                           history_vars, seq_vars, new_blocks>>

\* insert_meal_entry, lines 112-145: the free-segment pass
FreeSegmentStep ==
    /\ pc = "attempt"
    /\ meal_pass = 1
    /\ LET best == FreeSegmentPass(entries, compute_free_segments(entries, day_start, day_end),
                                   1, MealTarget, meal_gap, NoMeal)
           title == get_expected_meal_titles(meals_count)[meal_idx]
       IN  IF best.inserted
           THEN TitlePlaced(SortByStart(Append(entries, MealEntry(best.start, best.end, title))))
           ELSE /\ meal_pass' = 2
                /\ UNCHANGED <<norm_vars, pc, meal_idx, meal_gap, entries, inputs_vars, window_vars,
                               history_vars, seq_vars, new_blocks>>

\* insert_meal_entry, lines 147-216: the filler-splitting pass
FillerStep ==
    /\ pc = "attempt"
    /\ meal_pass = 2
    /\ LET filler == FillerPass(entries, StartOrder(entries), 1, MealTarget,
                                get_expected_meal_titles(meals_count)[meal_idx], meal_gap,
                                meal_gap # 35)
       IN  IF filler.inserted
           THEN TitlePlaced(filler.entries)
           ELSE /\ meal_pass' = 3
                /\ UNCHANGED <<norm_vars, pc, meal_idx, meal_gap, entries, inputs_vars, window_vars,
                               history_vars, seq_vars, new_blocks>>

\* insert_meal_entry, lines 218-273: the nearest-midpoint pass and the return
MidpointStep ==
    /\ pc = "attempt"
    /\ meal_pass = 3
    /\ LET nearest == MidpointPass(entries, MidpointOrder(entries, MealTarget, meal_gap # 35),
                                   1, MealTarget,
                                   get_expected_meal_titles(meals_count)[meal_idx], meal_gap)
       IN  IF nearest.inserted THEN TitlePlaced(nearest.entries) ELSE AttemptFailed

\* ensure_meal_coverage, lines 297-317
CoverageReconcile ==
    /\ pc = "reconcile"
    /\ entries' = Reconcile(SortByStart(entries), get_expected_meal_titles(meals_count))
    /\ pc' = "fill"
    /\ UNCHANGED <<norm_vars, meal_vars, inputs_vars, window_vars, history_vars, seq_vars, new_blocks>>

Next ==
    \/ Resolve
    \/ IngestBlocks
    \/ EnforceWeeklyEvents
    \/ EnsureRoutines
    \/ ApplyTaskDurations
    \/ EnsureMealCoverage
    \/ FillGaps
    \/ EmitBlocks

NextRerun == Next \/ Rerun
NextTermination == Next \/ FocusIterate \/ FocusTail

\* the call with ensure_meal_coverage taken one insert_meal_entry pass at a time
NextChain ==
    \/ Resolve
    \/ IngestBlocks
    \/ EnforceWeeklyEvents
    \/ EnsureRoutines
    \/ ApplyTaskDurations
    \/ CoverageBegin
    \/ InsertBegin
    \/ FreeSegmentStep
    \/ FillerStep
    \/ MidpointStep
    \/ CoverageReconcile
    \/ FillGaps
    \/ EmitBlocks

Spec == Init /\ [][Next]_vars
SpecMeals == (\E inputs \in MealScenarios : Start(inputs)) /\ [][Next]_vars
SpecWindow == (\E inputs \in WindowScenarios : Start(inputs)) /\ [][Next]_vars
SpecTasks == (\E inputs \in TaskScenarios : Start(inputs)) /\ [][Next]_vars
SpecMalformed == (\E inputs \in MalformedScenarios : Start(inputs)) /\ [][Next]_vars
SpecRerun == (\E inputs \in RerunScenarios : Start(inputs)) /\ [][NextRerun]_vars
SpecMidnight == (\E inputs \in MidnightScenarios : Start(inputs)) /\ [][Next]_vars
SpecTypes == (\E inputs \in TypeScenarios : Start(inputs)) /\ [][Next]_vars
SpecSpacing == (\E inputs \in SpacingScenarios : Start(inputs)) /\ [][Next]_vars
SpecNamesake == (\E inputs \in NamesakeScenarios : Start(inputs)) /\ [][Next]_vars
SpecChain == (\E inputs \in SpacingScenarios : Start(inputs)) /\ [][NextChain]_vars
SpecFill == (\E inputs \in FillScenarios : StartStage(inputs)) /\ [][FillGaps]_vars
SpecSequence == (\E inputs \in SequenceScenarios : StartSequence(inputs)) /\ [][FocusIterate \/ FocusTail]_vars
SpecStages ==
    /\ \E inputs \in StageScenarios : StartStage(inputs)
    /\ [][EnforceWeeklyEvents \/ EnsureRoutines \/ ApplyTaskDurations \/ EnsureMealCoverage
             \/ FillGaps \/ EmitBlocks]_vars
SpecNormalize ==
    /\ \E start_clock, end_clock, wake, sleep \in {0, 1, 60, 420, 421, 1380, 1439},
          crosses \in BOOLEAN :
          StartNormalize(start_clock, end_clock, wake, sleep, crosses)
    /\ [][NormalizeWindow]_vars
SpecCarve == (\E inputs \in CarveScenarios : StartStage(inputs)) /\ [][EnforceWeeklyEvents]_vars
SpecSequential == (\E inputs \in SequentialScenarios : StartStage(inputs)) /\ [][EnforceWeeklyEvents]_vars
SpecRoutines == (\E inputs \in RoutineScenarios : StartStage(inputs)) /\ [][EnforceWeeklyEvents \/ EnsureRoutines]_vars

\* the line of post_process_schedule that follows each stage
StageOrder ==
    [resolve |-> "ingest", ingest |-> "events", events |-> "routines", routines |-> "tasks",
     tasks |-> "meals", meals |-> "fill", fill |-> "emit", emit |-> "done"]

\* control passes to the next line; under NextTermination the steps that do
\* this are exactly the stage actions
StageReturns ==
    /\ pc \in DOMAIN StageOrder
    /\ pc' = StageOrder[pc]

\* a call runs on one thread and waits on nothing, so a statement that can run
\* does run
SpecTermination ==
    /\ InitTermination /\ [][NextTermination]_vars
    /\ WF_pc(StageReturns) /\ WF_vars(FocusIterate) /\ WF_vars(FocusTail)

----------------------------------------------------------------------------
(* Properties *)

Done == pc = "done"

Duration(entry) == entry.end - entry.start

Overlaps(entry, start, end) == entry.start < end /\ start < entry.end

MealIndices(es) == {i \in 1..Len(es) : es[i].block.type = "meal"}

\* the titles of the meal blocks of the output, in output order
MealTitles == LET IsMealBlock(b) == b.type = "meal"
                  ms == SelectSeq(new_blocks, IsMealBlock)
              IN  [i \in 1..Len(ms) |-> ms[i].title]

\* the expected-titles table of the specification (section 4.7, step 2)
ExpectedTitlesTable ==
    [n \in 0..6 |->
        CASE n = 0 -> <<>>
          [] n = 1 -> <<"Main Meal">>
          [] n = 2 -> <<"Breakfast", "Dinner">>
          [] n = 3 -> <<"Breakfast", "Lunch", "Dinner">>
          [] n = 4 -> <<"Breakfast", "Snack/Brunch", "Lunch", "Dinner">>
          [] n = 5 -> <<"Breakfast", "Mid-morning Snack", "Lunch", "Afternoon Snack", "Dinner">>
          [] OTHER -> <<"Breakfast", "Mid-morning Snack", "Lunch", "Afternoon Snack", "Dinner",
                        "Evening Snack">>]

\* C1 (as claimed): the returned blocks, in output order, are sorted by start,
\* each has start < end, the first starts at day_start, the last ends at
\* day_end, and each block starts exactly where the previous one ends.
C1_Coverage ==
    Done =>
        /\ Len(entries) > 0
        /\ entries[1].start = day_start
        /\ entries[Len(entries)].end = day_end
        /\ \A i \in 1..Len(entries) : entries[i].start < entries[i].end
        /\ \A i \in 1..(Len(entries) - 1) :
              /\ entries[i].start <= entries[i + 1].start
              /\ entries[i].end = entries[i + 1].start
              /\ new_blocks[i].end = new_blocks[i + 1].start

\* the events of today are pairwise non-overlapping on the resolved timeline
EventsDisjoint ==
    \A j, k \in 1..Len(todays_events) :
        j < k =>
            LET a == EventWindow(todays_events[j], day_start, day_end, wake_minutes,
                                 sleep_minutes, crosses_midnight)
                b == EventWindow(todays_events[k], day_start, day_end, wake_minutes,
                                 sleep_minutes, crosses_midnight)
            IN  a[2] <= b[1] \/ b[2] <= a[1]

\* C2 (as claimed): every event of today whose clamped span is at least 5
\* minutes appears in the output as exactly one weekly_event block with the
\* event's own start, end and title, and no other output block overlaps it.
C2_WeeklyEventFidelity ==
    (Done /\ EventsDisjoint) =>
        \A k \in 1..Len(todays_events) :
            LET event == todays_events[k]
                w == EventWindow(event, day_start, day_end, wake_minutes, sleep_minutes,
                                 crosses_midnight)
                own == {i \in 1..Len(new_blocks) :
                           /\ new_blocks[i].type = "weekly_event"
                           /\ new_blocks[i].start = event.start
                           /\ new_blocks[i].end = event.end
                           /\ new_blocks[i].title = event.title}
            IN  w[2] - w[1] >= 5 =>
                    /\ Cardinality(own) = 1
                    /\ \A i \in 1..Len(entries) :
                          i \notin own => ~Overlaps(entries[i], w[1], w[2])

C4_RoutinesInOutput ==
    (Done /\ meals_count = 3 /\ schedule = <<>> /\ tasks = <<>> /\ todays_events = <<>>
          /\ day_end - day_start >= 60) =>
        /\ Len(new_blocks) >= 2
        /\ new_blocks[1].type = "morning_routine"
        /\ entries[1].start = day_start
        /\ entries[1].end = day_start + 30
        /\ new_blocks[Len(new_blocks)].type = "evening_routine"
        /\ entries[Len(entries)].end = day_end

BlockKeys(blocks_list) ==
    [i \in 1..Len(blocks_list) |->
        <<blocks_list[i].start, blocks_list[i].end, blocks_list[i].type, blocks_list[i].title>>]

\* C5 (as claimed): feeding the returned blocks back in as the raw input,
\* with the same preferences, tasks, meal count and events, returns the same
\* block list (starts, ends, types and titles).
C5_Idempotence ==
    (Done /\ run = 2) => BlockKeys(new_blocks) = BlockKeys(first_blocks)

\* C6 (as claimed): an output block whose title is the name of a task with a
\* positive duration d lasts exactly d minutes, unless a fixed block begins
\* less than d minutes after its start, and then it ends at that fixed
\* block's start; it is never longer than d.
C6_TaskDuration ==
    Done =>
        \A i \in 1..Len(entries) :
            LET d == TaskDuration(tasks, Lower(entries[i].block.title))
            IN  d > 0 =>
                    /\ Duration(entries[i]) <= d
                    /\ \/ Duration(entries[i]) = d
                       \/ /\ i < Len(entries)
                          /\ is_fixed_block(entries[i + 1].block)
                          /\ entries[i + 1].start = entries[i].end

\* C7: every meal entry left by ensure_meal_coverage, and every meal block of
\* the output, lasts at least 20 and at most 30 minutes.
C7_MealDuration ==
    pc \in {"fill", "emit", "done"} =>
        \A i \in MealIndices(entries) :
            Duration(entries[i]) >= 20 /\ Duration(entries[i]) <= 30

C7_Witness ==
    /\ Done
    /\ \E i \in MealIndices(entries) : Duration(entries[i]) < 30
    /\ \E i \in MealIndices(entries) : Duration(entries[i]) = 30

\* C8: after ensure_meal_coverage and in the output there are at most
\* meals_count meal blocks, and none when meals_count is 0, also when the
\* input proposed meal blocks of its own.
C8_MealUpperBound ==
    pc \in {"fill", "emit", "done"} =>
        /\ Cardinality(MealIndices(entries)) <= Max(meals_count, 0)
        /\ Done => Cardinality({i \in 1..Len(new_blocks) : Lower(new_blocks[i].type) = "meal"})
                       <= Max(meals_count, 0)

C8_Witness ==
    /\ Done
    /\ meals_count = 0
    /\ \E k \in 1..Len(schedule) : schedule[k].type = "meal"
    /\ MealIndices(entries) = {}

WellFormed(block) ==
    Len(block.start) = 2 /\ Len(block.end) = 2

\* C9 (as claimed): an input block whose start or end is missing or is not a
\* parsable HH:MM string contributes nothing: the output is the output for
\* the input without that block.
C9_MalformedDropped ==
    Done =>
        new_blocks = post_process_schedule(SelectSeq(schedule, WellFormed), preferences, tasks,
                                           meals_count, todays_events)

\* C10: the resolved window has day_end > day_start and day_start <= wake;
\* day_end is at least sleep (plus 1440 when sleep <= wake) and exactly that
\* without events; every event's normalized window lies inside the window,
\* so clamping it changes nothing.
C10_DayWindow ==
    pc # "resolve" =>
        LET base_end == IF sleep_minutes <= wake_minutes
                        THEN sleep_minutes + MINUTES_PER_DAY ELSE sleep_minutes
        IN  /\ day_end > day_start
            /\ day_start <= wake_minutes
            /\ day_end >= base_end
            /\ todays_events = <<>> => (day_end = base_end /\ day_start = wake_minutes)
            /\ \A k \in 1..Len(todays_events) :
                  LET event == todays_events[k]
                      w == normalize_window(parse_time(event.start), parse_time(event.end),
                                            wake_minutes, sleep_minutes, crosses_midnight)
                  IN  /\ w[1] < w[2]
                      /\ day_start <= w[1]
                      /\ w[2] <= day_end
                      /\ EventWindow(event, day_start, day_end, wake_minutes, sleep_minutes,
                                     crosses_midnight) = w

C10_Witness ==
    /\ pc = "ingest"
    /\ crosses_midnight
    /\ todays_events # <<>>
    /\ day_start < wake_minutes
    /\ day_end > sleep_minutes + MINUTES_PER_DAY

\* C11 (as claimed): when sleep time <= wake time and there are no events, the
\* window is [wake, sleep + 1440); an output block whose clock start is before
\* the wake clock comes from an entry at 1440 or later; and the last output
\* block's rendered end is the sleep clock time.
C11_MidnightWraparound ==
    (pc # "resolve" /\ todays_events = <<>> /\ sleep_minutes <= wake_minutes) =>
        /\ crosses_midnight
        /\ day_start = wake_minutes
        /\ day_end = sleep_minutes + MINUTES_PER_DAY
        /\ Done =>
              /\ Len(new_blocks) > 0
              /\ new_blocks[Len(new_blocks)].end = minutes_to_time(sleep_minutes)
              /\ \A i \in 1..Len(new_blocks) :
                    parse_time(new_blocks[i].start) < wake_minutes =>
                        entries[i].start >= MINUTES_PER_DAY

C13_CanonicalTypes ==
    Done => \A i \in 1..Len(new_blocks) :
        new_blocks[i].type \in
            {"meal", "weekly_event", "morning_routine", "evening_routine",
             "focus_block", "freetime", "free_time", "break", "task", "todo"}

\* the clamped span of event k of today
EventSpan(k) ==
    EventWindow(todays_events[k], day_start, day_end, wake_minutes, sleep_minutes,
                crosses_midnight)

Meets(entry, s, e) == ~(entry.end <= s \/ entry.start >= e)

\* the postcondition of one carve, from the entries before (old) to the
\* entries after (new)
CarvePost(old, new, s, e) ==
    LET Count(es, v) == Cardinality({i \in 1..Len(es) : es[i] = v})
        \* the minutes outside [s, e) that the entries cover
        CoveredOutside(es) ==
            {m \in 400..800 : (m < s \/ m >= e)
                                /\ \E i \in 1..Len(es) : es[i].start <= m /\ m < es[i].end}
        event == CHOOSE x \in {new[j] : j \in 1..Len(new)} \cup {Entry(s, e, [type |-> "none"])} :
                     \/ x.block.type = "weekly_event" /\ x.start = s /\ x.end = e
                     \/ \A j \in 1..Len(new) :
                           ~(new[j].block.type = "weekly_event" /\ new[j].start = s /\ new[j].end = e)
        values == {new[j] : j \in 1..Len(new)} \cup {old[i] : i \in 1..Len(old)}
        befores(v) == {i \in 1..Len(old) : Meets(old[i], s, e) /\ old[i].start < s
                                            /\ v = Entry(old[i].start, s, old[i].block)}
        afters(v) == {i \in 1..Len(old) : Meets(old[i], s, e) /\ old[i].end > e
                                           /\ v = Entry(e, old[i].end, old[i].block)}
        kept(v) == {i \in 1..Len(old) : ~Meets(old[i], s, e) /\ old[i] = v}
    IN  /\ Cardinality({j \in 1..Len(new) : /\ new[j].block.type = "weekly_event"
                                              /\ new[j].start = s /\ new[j].end = e}) = 1
        /\ Cardinality({j \in 1..Len(new) : Meets(new[j], s, e)}) = 1
        /\ \A v \in values :
              Count(new, v) = Cardinality(kept(v)) + Cardinality(befores(v))
                              + Cardinality(afters(v)) + (IF v = event THEN 1 ELSE 0)
        /\ CoveredOutside(new) = CoveredOutside(old)

\* C14: when enforce_weekly_events applies one event whose clamped span
\* [s, e) is at least 5 minutes, the entry list afterwards holds one
\* weekly_event entry with exactly [s, e), nothing else meets [s, e), every
\* entry that did not meet [s, e) is unchanged, every entry that did is
\* replaced by its part before s and/or after e with its payload, and the
\* minutes covered outside [s, e) are the same as before.
C14_WeeklyEventCarve ==
    [][(pc = "events" /\ Len(todays_events) = 1
            /\ EventSpan(1)[2] - EventSpan(1)[1] >= 5)
        => CarvePost(entries, entries', EventSpan(1)[1], EventSpan(1)[2])]_vars

\* an applied event that split one entry in two and cut another
C14_Witness ==
    /\ pc = "routines" /\ Len(todays_events) = 1
    /\ EventSpan(1)[2] - EventSpan(1)[1] >= 5
    /\ \E i, j, k \in 1..Len(entries) :
          /\ entries[i].end = EventSpan(1)[1] /\ entries[j].start = EventSpan(1)[2]
          /\ entries[i].block = entries[j].block /\ entries[i].block.type = "task"
          /\ entries[k].block.type = "lecture" /\ entries[k].start = EventSpan(1)[2]

\* event k passes the tests of the loop and is carved into the entries
Applied(k) ==
    /\ todays_events[k].start # Missing /\ todays_events[k].end # Missing
    /\ EventSpan(k)[2] - EventSpan(k)[1] >= 5

\* two events of today that are both applied and overlap
OverlappingEvents ==
    \E i, j \in 1..Len(todays_events) :
        /\ i < j /\ Applied(i) /\ Applied(j)
        /\ EventSpan(i)[1] < EventSpan(j)[2] /\ EventSpan(j)[1] < EventSpan(i)[2]

WeeklyDisjoint(es) ==
    \A i, j \in 1..Len(es) :
        (i # j /\ es[i].block.type = "weekly_event" /\ es[j].block.type = "weekly_event")
            => (es[i].end <= es[j].start \/ es[j].end <= es[i].start)

\* the entries after the stage: sorted, the last applied event with its
\* full span and alone on it, weekly events pairwise disjoint
SequentialPost(es) ==
    LET last == CHOOSE k \in 1..Len(todays_events) :
                    Applied(k) /\ \A l \in (k + 1)..Len(todays_events) : ~Applied(l)
        span == EventSpan(last)
        title == IF todays_events[last].title = "" THEN "Weekly Event"
                 ELSE todays_events[last].title
    IN  /\ \A i \in 1..(Len(es) - 1) : es[i].start <= es[i + 1].start
        /\ \E i \in 1..Len(es) :
              /\ es[i] = Entry(span[1], span[2],
                               [type |-> "weekly_event", title |-> title, focus_required |-> FALSE])
              /\ \A j \in 1..Len(es) : j # i => ~Meets(es[j], span[1], span[2])
        /\ WeeklyDisjoint(es)

RoutinePost(es) ==
    LET mornings == {i \in 1..Len(es) : es[i].block.type = "morning_routine"}
        evenings == {i \in 1..Len(es) : es[i].block.type = "evening_routine"}
    IN  /\ Cardinality(mornings) = 1 /\ Cardinality(evenings) = 1
        /\ \A m \in mornings, e \in evenings :
              /\ es[m].start = day_start /\ es[e].end = day_end
              /\ es[m].end - es[m].start >= 1 /\ es[e].end - es[e].start >= 1
              /\ es[m].end <= es[e].start
              /\ \A i \in 1..Len(es) :
                    /\ i # m => ~Meets(es[i], es[m].start, es[m].end)
                    /\ i # e => ~Meets(es[i], es[e].start, es[e].end)

\* C16 (as claimed): for every window of at least 1 minute and every
\* routine-length preference, after ensure_routines there is exactly one
\* morning_routine entry starting at day_start and exactly one
\* evening_routine entry ending at day_end, each at least 1 minute long, the
\* morning one ending no later than the evening one starts, and no other
\* entry overlaps either.
C16_RoutinePostcondition ==
    (pc = "tasks" /\ day_end - day_start >= 1) => RoutinePost(entries)

\* C16 (amended): the same for every window of at least 2 minutes; a window
\* of 1 minute has no room for two routines and gets the evening one only.
C16_RoutinePostconditionAmended ==
    (pc = "tasks" /\ day_end - day_start >= 2) => RoutinePost(entries)

\* a window of 2 minutes with routine preferences far above it: both
\* routines are cut down to 1 minute
C16_Witness ==
    /\ pc = "tasks" /\ day_end - day_start = 2
    /\ preferences.morning_routine_length = 90 /\ preferences.evening_routine_length = 30
    /\ Len(entries) = 2
    /\ entries[1].block.type = "morning_routine" /\ entries[1].end = day_start + 1
    /\ entries[2].block.type = "evening_routine" /\ entries[2].start = day_start + 1

\* C17 (as claimed): apply_task_duration_constraints never decreases the
\* start of an entry, and never changes the start or the end of an entry of
\* type weekly_event or meal, also when its title is the name of a task.
C17_ForwardOnlySparesFixed ==
    [][pc = "tasks" =>
         /\ Len(entries') = Len(entries)
         /\ \A i \in 1..Len(entries) :
               /\ entries'[i].start >= entries[i].start
               /\ is_fixed_block(entries[i].block) => entries'[i] = entries[i]]_vars

\* C18 (as claimed): when the entries are sorted by start and pairwise
\* non-overlapping before apply_task_duration_constraints, they are pairwise
\* non-overlapping after it: a resized task ends by the start of the next
\* fixed block and no shifted entry overlaps a fixed block.
C18_OverlapResolution ==
    [][LET PairwiseDisjoint(es) ==
               \A i, j \in 1..Len(es) :
                   i < j => (es[i].end <= es[j].start \/ es[j].end <= es[i].start)
       IN  (/\ pc = "tasks"
            /\ \A i \in 1..(Len(entries) - 1) : entries[i].start <= entries[i + 1].start
            /\ PairwiseDisjoint(entries))
           => PairwiseDisjoint(entries')]_vars

\* C19 (as claimed): the free-segment pass of insert_meal_entry rejects a
\* candidate for spacing only when it overlaps or lies closer than min_gap to
\* a meal entry, so the first meal of the stage lands on the free-segment
\* candidate nearest its target, whatever non-meal entry is next to it. (The
\* list the stage works on has been stripped of its meals: measured against
\* meals only, no candidate of the first meal is rejected for spacing.)
C19_SpacingAgainstMealsOnly ==
    [][LET stripped == SelectSeq(SortByStart(entries), NotMeal)
           target == calculate_meal_target(1, Len(get_expected_meal_titles(meals_count)),
                                           day_start, day_end)
           first == FreeSegmentPass(<<>>, compute_free_segments(stripped, day_start, day_end),
                                    1, target, 35, NoMeal)
       IN  (pc = "meals" /\ meals_count >= 1 /\ day_end - day_start >= 20 /\ first.inserted)
           => \E i \in 1..Len(entries') :
                 /\ entries'[i].block.type = "meal"
                 /\ entries'[i].start = first.start
                 /\ entries'[i].end = first.end]_vars

\* C20: after ensure_meal_coverage, and in the output, any two meal blocks
\* are at least 20 minutes apart: no step of the relaxation chain puts a meal
\* over another meal or right next to one.
C20_MealDistance ==
    pc \in {"fill", "emit", "done"} =>
        \A i, j \in MealIndices(entries) :
            (i # j /\ entries[i].start <= entries[j].start)
                => entries[j].start - entries[i].end >= 20

\* two meals of the output exactly 20 minutes apart: the last step of the
\* chain placed the second one
C20_Witness ==
    /\ Done
    /\ \E i, j \in MealIndices(entries) :
          /\ new_blocks[i].type = "meal" /\ new_blocks[j].type = "meal"
          /\ entries[j].start - entries[i].end = 20

\* C21: for each expected title the calls of insert_meal_entry run with
\* min_gap 35, 30, 25, 20 in that order, each call runs the free-segment pass,
\* the filler-splitting pass and the nearest-midpoint pass in that order, a
\* pass or call that fails leaves the entry list unchanged, the first pass
\* that succeeds adds exactly one meal entry, carrying the title, and ends the
\* chain for that title, and after the failed call with min_gap 20 the loop
\* moves to the next title with the list unchanged.
C21_FallbackChain ==
    [][LET MealCount(es) == Cardinality({i \in 1..Len(es) : IsMeal(es[i])})
           title == get_expected_meal_titles(meals_count)[meal_idx]
           next_title == meal_idx' = meal_idx + 1 /\ meal_gap' = 35 /\ meal_pass' = 0
           call_returns_none == meal_pass = 3 \/ (meal_pass = 0 /\ day_end - day_start < 20)
       IN  /\ (pc = "meals" /\ pc' = "attempt")
                 => meal_idx' = 1 /\ meal_gap' = 35 /\ meal_pass' = 0
           /\ pc = "attempt"
                 => \/ /\ entries' = entries
                       /\ meal_pass < 3 /\ meal_pass' = meal_pass + 1
                       /\ meal_idx' = meal_idx /\ meal_gap' = meal_gap
                    \/ /\ entries' = entries
                       /\ call_returns_none
                       /\ <<meal_gap, meal_gap'>> \in {<<35, 30>>, <<30, 25>>, <<25, 20>>}
                       /\ meal_idx' = meal_idx /\ meal_pass' = 0
                    \/ /\ entries' = entries
                       /\ call_returns_none
                       /\ meal_gap = 20
                       /\ next_title
                    \/ /\ meal_pass \in 1..3
                       /\ MealCount(entries') = MealCount(entries) + 1
                       /\ \E i \in 1..Len(entries') :
                             IsMeal(entries'[i]) /\ entries'[i].block.title = title
                       /\ next_title]_vars

\* the second title is at the last pass of the call with min_gap 20, and the
\* first title could not be placed
C21_Witness ==
    /\ pc = "attempt"
    /\ meal_idx = 2 /\ meal_gap = 20 /\ meal_pass = 3
    /\ \A i \in 1..Len(entries) : ~IsMeal(entries[i])
    /\ entries # <<>>

\* C22: no pass of insert_meal_entry, at any threshold, splits, shortens,
\* moves or removes a weekly_event or meal entry; the call with min_gap 35
\* (allow_focus_override unset) leaves every entry with focus_required set as
\* it is, and its filler-splitting pass leaves every entry whose type holds no
\* filler keyword as it is.
C22_MealEngineSpares ==
    [][LET Count(es, e) == Cardinality({i \in 1..Len(es) : es[i] = e})
           Kept(e) == Count(entries', e) >= Count(entries, e)
           Anchor(e) == Lower(e.block.type) \in {"weekly_event", "meal"}
           Filler(e) == \E keyword \in FillerKeywords : Contains(Lower(e.block.type), keyword)
       IN  pc = "attempt"
              => \A i \in 1..Len(entries) :
                    /\ Anchor(entries[i]) => Kept(entries[i])
                    /\ (meal_gap = 35 /\ entries[i].block.focus_required) => Kept(entries[i])
                    /\ (meal_gap = 35 /\ meal_pass = 2 /\ ~Filler(entries[i]))
                          => Kept(entries[i])]_vars

\* a meal has been carved out of an entry with focus_required set (so under
\* the override) while a weekly_event entry of at least 20 minutes and another
\* meal are in the list
C22_Witness ==
    /\ pc \in {"attempt", "reconcile"}
    /\ \E w, m, k, f \in 1..Len(entries) :
          /\ Lower(entries[w].block.type) = "weekly_event" /\ Duration(entries[w]) >= 20
          /\ IsMeal(entries[m]) /\ IsMeal(entries[k]) /\ m # k
          /\ entries[f].block.focus_required /\ entries[f].end = entries[m].start

\* C23: when ensure_meal_coverage returns with k meal entries in the list,
\* k is at most the number N of expected titles, the meal entries have
\* distinct starts, and the one of rank r by start carries the r-th expected
\* title for N, type meal and focus_required false.
C23_ChronologicalLabels ==
    pc = "fill" =>
        LET titles == get_expected_meal_titles(meals_count)
            ms == SelectSeq(SortByStart(entries), IsMeal)
        IN  /\ Len(ms) <= Len(titles)
            /\ \A r \in 1..Len(ms) :
                  /\ ms[r].block = [type |-> "meal", title |-> titles[r], focus_required |-> FALSE]
                  /\ r < Len(ms) => ms[r].start < ms[r + 1].start

\* the stage has returned with at least two meals placed and at least one
\* expected title left unplaced
C23_Witness ==
    /\ pc = "fill"
    /\ LET k == Cardinality({i \in 1..Len(entries) : IsMeal(entries[i])})
       IN  2 <= k /\ k < Len(get_expected_meal_titles(meals_count))

\* C24: when the filler-splitting pass or the nearest-midpoint pass carves a
\* meal out of an entry E, the meal lies within [E.start, E.end), the list
\* after the pass is the list before it with E replaced by the before-remainder
\* (kept exactly when it is at least 5 minutes long, with E's block), the meal
\* and the after-remainder (likewise), and every other entry is unchanged.
C24_MealCarve ==
    [][LET Count(es, e) == Cardinality({i \in 1..Len(es) : es[i] = e})
           Pieces(E, meal) ==
               (IF meal.start - E.start >= 5
                THEN <<Entry(E.start, meal.start, E.block)>> ELSE <<>>)
               \o <<meal>>
               \o (IF E.end - meal.end >= 5
                   THEN <<Entry(meal.end, E.end, E.block)>> ELSE <<>>)
           Replaced(idx, meal) ==
               SubSeq(entries, 1, idx - 1) \o Pieces(entries[idx], meal)
               \o SubSeq(entries, idx + 1, Len(entries))
       IN  (pc = "attempt" /\ meal_pass \in {2, 3} /\ entries' # entries)
              => \E idx \in 1..Len(entries), m \in 1..Len(entries') :
                    /\ IsMeal(entries'[m])
                    /\ entries[idx].start <= entries'[m].start
                    /\ entries'[m].start < entries'[m].end
                    /\ entries'[m].end <= entries[idx].end
                    /\ Len(entries') = Len(Replaced(idx, entries'[m]))
                    /\ \A i \in 1..Len(entries') :
                          Count(entries', entries'[i])
                             = Count(Replaced(idx, entries'[m]), entries'[i])]_vars

\* C25: after ingestion and after each of enforce_weekly_events,
\* ensure_routines, apply_task_duration_constraints, ensure_meal_coverage and
\* fill_gaps_with_focus, every entry of the list has start < end.
C25_EntryInvariant ==
    pc \in {"events", "routines", "tasks", "meals", "fill", "emit", "done"}
        => \A i \in 1..Len(entries) : entries[i].start < entries[i].end

\* C26: called on entries that are pairwise non-overlapping and lie inside
\* [day_start, day_end], fill_gaps_with_focus returns a list that partitions
\* [day_start, day_end) exactly, in order; every input entry that is not
\* focus-typed is in it with its start, end and block unchanged; the span of
\* every focus-typed input entry (focus_block, focus, focus_placeholder) is
\* covered by generated entries only, none of which crosses the span's ends;
\* and every other output entry is a generated entry that overlaps no input
\* entry.
C26_GapFiller ==
    [][LET old == entries
           new == entries'
           FocusTyped(e) == Lower(e.block.type) \in {"focus_block", "focus", "focus_placeholder"}
           Generated(e) ==
               \/ e.block = [type |-> "focus_block", title |-> "Focus Block", focus_required |-> TRUE]
               \/ e.block = [type |-> "freetime", title |-> "Free Time", focus_required |-> FALSE]
           Inside(e, host) == host.start <= e.start /\ e.end <= host.end
           Partition ==
               /\ \A i \in 1..Len(new) : new[i].start < new[i].end
               /\ \A i \in 1..(Len(new) - 1) : new[i].end = new[i + 1].start
               /\ IF day_start < day_end
                  THEN new # <<>> /\ new[1].start = day_start /\ new[Len(new)].end = day_end
                  ELSE new = <<>>
       IN  pc = "fill"
              => /\ Partition
                 /\ \A i \in 1..Len(old) :
                       IF FocusTyped(old[i])
                       THEN \A k \in 1..Len(new) :
                               Overlaps(new[k], old[i].start, old[i].end)
                                  => Generated(new[k]) /\ Inside(new[k], old[i])
                       ELSE \E k \in 1..Len(new) : new[k] = old[i]
                 /\ \A k \in 1..Len(new) :
                       \/ \E i \in 1..Len(old) : ~FocusTyped(old[i]) /\ new[k] = old[i]
                       \/ /\ Generated(new[k])
                          /\ \A i \in 1..Len(old) :
                                Overlaps(new[k], old[i].start, old[i].end)
                                   => FocusTyped(old[i]) /\ Inside(new[k], old[i])]_vars

\* the stage has returned a list that holds a kept task entry, a kept meal
\* entry and generated focus blocks and free time on both sides of the task
C26_Witness ==
    /\ pc = "emit"
    /\ \E t, m, f, g \in 1..Len(entries) :
          /\ entries[t].block.type = "task" /\ entries[m].block.type = "meal"
          /\ entries[f].block.type = "focus_block" /\ entries[f].end <= entries[t].start
          /\ entries[g].block.type = "freetime" /\ entries[g].start >= entries[t].end

\* C27: for start < end, build_focus_sequence returns contiguous entries that
\* cover [start, end) exactly; every focus_block entry is max(5,
\* focus_block_length) long; every freetime entry that is followed by another
\* entry is break_length long and stands between two focus_block entries; a
\* focus block is followed by a break exactly when at least break_length plus
\* the focus length remains after it; and a trailing freetime entry is shorter
\* than one focus block.
C27_FocusSequenceShape ==
    (pc = "focus_done" /\ seq_start < seq_end) =>
        LET segs == seq_segments
            focus_len == IF preferences.focus_block_length > 5
                         THEN preferences.focus_block_length ELSE 5
            break_len == IF preferences.break_length > 0 THEN preferences.break_length ELSE 0
            IsFocus(i) == segs[i].block.type = "focus_block"
            IsFree(i) == segs[i].block.type = "freetime"
        IN  /\ segs # <<>>
            /\ segs[1].start = seq_start /\ segs[Len(segs)].end = seq_end
            /\ \A i \in 1..Len(segs) :
                  /\ segs[i].start < segs[i].end
                  /\ i < Len(segs) => segs[i].end = segs[i + 1].start
                  /\ IsFocus(i) \/ IsFree(i)
                  /\ IsFocus(i) => Duration(segs[i]) = focus_len
                  /\ (IsFree(i) /\ i < Len(segs))
                        => /\ Duration(segs[i]) = break_len
                           /\ i > 1 /\ IsFocus(i - 1) /\ IsFocus(i + 1)
                  /\ (IsFocus(i) /\ break_len > 0)
                        => ((i < Len(segs) /\ IsFree(i + 1) /\ Duration(segs[i + 1]) = break_len
                             /\ i + 1 < Len(segs))
                            <=> seq_end - segs[i].end >= break_len + focus_len)
                  /\ (IsFree(i) /\ i = Len(segs)) => Duration(segs[i]) < focus_len

\* C28: normalize_focus_blocks leaves every block of type freetime, break,
\* morning_routine or evening_routine with its type unchanged and
\* focus_required false, leaves the type of every meal and weekly_event block
\* unchanged, and forces to focus_block with focus_required true only blocks
\* outside these types that are not task or todo blocks either.  (The blocks
\* it receives are the rendered entries after sanitize_filler_blocks.)
C28_NormalizerSparesNonFocus ==
    [][pc = "emit" =>
          LET received == sanitize_filler_blocks(Render(entries), tasks)
              returned == new_blocks'
          IN  \A i \in 1..Len(received) :
                 LET block_type == Lower(received[i].type)
                 IN  /\ block_type \in {"freetime", "break", "morning_routine", "evening_routine"}
                           => /\ returned[i].type = received[i].type
                              /\ ~returned[i].focus_required
                     /\ block_type \in {"meal", "weekly_event"}
                           => returned[i].type = received[i].type
                     /\ (/\ returned[i].type = "focus_block" /\ returned[i].focus_required
                         /\ (received[i].type # "focus_block" \/ ~received[i].focus_required))
                           => block_type \notin {"freetime", "break", "morning_routine",
                                                 "evening_routine", "meal", "weekly_event",
                                                 "task", "todo"}]_vars

\* C29: called with day_end - day_start < 1, ensure_routines and
\* ensure_meal_coverage leave the entry list exactly as they received it, and
\* fill_gaps_with_focus leaves the empty list.
C29_DegenerateWindow ==
    [][day_end - day_start < 1 =>
          /\ pc \in {"routines", "meals"} => entries' = entries
          /\ pc = "fill" => entries' = <<>>]_vars

\* C30: for clock values in 0..1439 and either value of crosses_midnight,
\* normalize_window returns (start', end') with start' < end' <= start' + 1440,
\* start' in {start, start + 1440} and end' congruent to end modulo 1440, and
\* a value comes back 1440 higher only when the window crosses midnight and
\* the value is before wake and at or before sleep.
C30_WindowNormalization ==
    pc = "normalized" =>
        LET DeadZone(value) ==
                crosses_midnight /\ value < wake_minutes /\ value <= sleep_minutes
        IN  /\ norm_start < norm_end /\ norm_end <= norm_start + 1440
            /\ norm_start \in {raw_start, raw_start + 1440}
            /\ (norm_end - raw_end) % 1440 = 0
            /\ norm_start = raw_start + 1440 => DeadZone(raw_start)
            /\ norm_end = raw_end + 1440 => DeadZone(raw_end)

\* C30, amended: the bounds and congruences as above; start' is start + 1440
\* exactly when the window crosses midnight and start is before wake and at or
\* before sleep; end' is end plus 1440 for the same condition on end, plus a
\* further 1440 exactly when the end so shifted is at or before start' (which
\* also happens in a window that does not cross midnight).
C30_WindowNormalizationAmended ==
    pc = "normalized" =>
        LET DeadZone(value) ==
                crosses_midnight /\ value < wake_minutes /\ value <= sleep_minutes
            shifted_end == IF DeadZone(raw_end) THEN raw_end + 1440 ELSE raw_end
        IN  /\ norm_start < norm_end /\ norm_end <= norm_start + 1440
            /\ norm_start \in {raw_start, raw_start + 1440}
            /\ (norm_end - raw_end) % 1440 = 0
            /\ norm_start = raw_start + 1440 <=> DeadZone(raw_start)
            /\ norm_end = IF shifted_end <= norm_start THEN shifted_end + 1440 ELSE shifted_end

\* both clock values lay in the dead zone of a window that crosses midnight and
\* the end was at or before the start: the end came back 2880 higher
C30_Witness ==
    /\ pc = "normalized"
    /\ crosses_midnight
    /\ norm_start = raw_start + 1440
    /\ norm_end = raw_end + 2880

====
